---------------------------- MODULE Spec2Model ----------------------------
(***************************************************************************)
(* Forensic watermarking pipeline: Reed-Solomon codec, still-image QIM     *)
(* embed/extract, temporal video sharding, evidence signing and the        *)
(* watermark request handler with its artwork records.                     *)
(*                                                                         *)
(* One group of variables per component; each component has its own        *)
(* specification (SpecRS, SpecImg, SpecVideo, SpecSign, SpecReq) that      *)
(* leaves the other groups untouched.                                      *)
(***************************************************************************)
EXTENDS Integers, Sequences, FiniteSets, TLC

VARIABLES
    rs_pc,      \* "idle" | "encoded" | "received" | "decoded"
    rs_ecc,     \* eccBytes of the ECCEngine under test
    rs_payload, \* payload string given to encode (sequence of code points)
    rs_sent,    \* bit array returned by encode
    rs_bits,    \* bit array handed to decode
    rs_hits,    \* byte positions (0-based) corrupted on the channel
    rs_result   \* value returned by decode (or the thrown error)

rsVars == <<rs_pc, rs_ecc, rs_payload, rs_sent, rs_bits, rs_hits, rs_result>>

VARIABLES
    im_pc,        \* position inside ImageWatermarkEngine.embed / extract
    im_engine,    \* this.options of the engine instance
    im_call,      \* arguments of the embed call
    im_binary,    \* binaryPayload
    im_positions, \* positions of the embed's CoefficientHopper
    im_lum,       \* luminance of the original
    im_res,       \* result array of embedInDCT
    im_bitIndex,  \* bitIndex = blockIndex of embedInDCT
    im_embed,     \* what embed returned or threw
    ex_call,      \* arguments of the extract call
    ex_positions, \* positions of the extract's CoefficientHopper
    ex_lum,       \* luminance of the image given to extract
    ex_bits,      \* extractedBits
    ex_coeffs,    \* coefficients read by extractFromDCT (units of 1/FIX)
    ex_result     \* what extract returned or threw

imVars == <<im_pc, im_engine, im_call, im_binary, im_positions, im_lum, im_res,
            im_bitIndex, im_embed, ex_call, ex_positions, ex_lum, ex_bits,
            ex_coeffs, ex_result>>

VARIABLES
    vd_pc,        \* position inside embedInFrames / extractFromFrames
    vd_call,      \* payload and temporalShards of the embedInFrames call
    vd_binary,    \* binaryPayload of embedInFrames
    vd_shards,    \* shards (hex strings as sequences of characters)
    vd_recovered, \* recoveredShards of extractFromFrames
    vd_decoded,   \* decoded (value of eccEngine.decode, or the thrown error)
    vd_result     \* what extractFromFrames returned

vdVars == <<vd_pc, vd_call, vd_binary, vd_shards, vd_recovered, vd_decoded,
            vd_result>>

VARIABLES
    sg_pc,        \* "idle" | "ready" | "signed" | "presented" | "verified"
    sg_signer,    \* privateKey and publicKey of the EvidenceSigner
    sg_signed,    \* arguments of signEvidence and the signature it returned
    sg_presented, \* arguments given to verifyEvidence
    sg_result     \* what verifyEvidence returned

sgVars == <<sg_pc, sg_signer, sg_signed, sg_presented, sg_result>>

VARIABLES
    rq_pc,       \* position inside the POST handler
    rq_now,      \* milliseconds that have passed on the clock
    rq_req,      \* the request: caller, file, mediaType
    rq_local,    \* the local constants of the handler that are set so far
    rq_response, \* the response of the handler
    db_artworks, \* the artworks table (document ids are positions)
    db_storage   \* the file storage (storage ids are positions)

rqVars == <<rq_pc, rq_now, rq_req, rq_local, rq_response, db_artworks, db_storage>>

VARIABLES
    hp_mid,       \* the module-level array MID_FREQUENCY_POSITIONS
    hp_hoppers,   \* the CoefficientHopper instances built so far, in order
    hp_query      \* the last getPosition call and the coordinates it returned

hpVars == <<hp_mid, hp_hoppers, hp_query>>

VARIABLES
    dt_pc,        \* position inside the POST handler of the detect route
    dt_file,      \* the uploaded file of the detect request
    dt_artworks,  \* the artworks table that getRecent reads (oldest first)
    dt_local,     \* the locals of the handler that are set so far
    dt_logs,      \* the detectionLogs table
    dt_response   \* the response of the handler

dtVars == <<dt_pc, dt_file, dt_artworks, dt_local, dt_logs, dt_response>>

VARIABLES
    vr_pc,        \* position inside the POST handler of the video route
    vr_req,       \* the request: the uploaded video and its number of frames
    vr_local,     \* the locals of the handler and of embedInFrames set so far
    vr_artworks,  \* the artworks table as the video route sees it
    vr_response   \* the response of the handler

vrVars == <<vr_pc, vr_req, vr_local, vr_artworks, vr_response>>

VARIABLES
    wi_now,       \* Date.now() in milliseconds after the clock base
    wi_requests,  \* the watermark requests that have drawn a workId, in order of arrival
    wi_artworks   \* the artworks table

wiVars == <<wi_now, wi_requests, wi_artworks>>

VARIABLES
    sh_engines,   \* this.options of the ImageWatermarkEngine instances
    sh_cosineTable,\* cosineTable of dct-utils: the entries set so far
    sh_gfExp,     \* gfExp of the Reed-Solomon code, filled when the module is loaded
    sh_ops        \* the embed and extract calls in flight or returned

shVars == <<sh_engines, sh_cosineTable, sh_gfExp, sh_ops>>

VARIABLES
    qm_pc,        \* "idle" | "ready" | "embedded" | "extracted"
    qm_engine,    \* this.options of the engine
    qm_embed,     \* the embed of one block: options argument, coefficient, bit, delta and block size used, new coefficient
    qm_extract    \* the extract of that block: delta and block size used, bit

qmVars == <<qm_pc, qm_engine, qm_embed, qm_extract>>

VARIABLES
    vf_pc,        \* "idle" | "embedding" | "embedded" | "extracting" | "extracted" | "threw"
    vf_call,      \* the engine options, the payload and the frames of embedInFrames
    vf_embed,     \* locals and result of embedInFrames
    vf_extract    \* locals and result of extractFromFrames

vfVars == <<vf_pc, vf_call, vf_embed, vf_extract>>

VARIABLES
    cl_artworks,  \* the artworks table: document id -> document
    cl_storage,   \* ids of the files in the file storage
    cl_now,       \* Date.now(), in milliseconds
    cl_next       \* the next document id

clVars == <<cl_artworks, cl_storage, cl_now, cl_next>>

\* the variables that the actions of one component leave alone
notRsVars == <<imVars, vdVars, sgVars, rqVars, hpVars, dtVars, vrVars, wiVars, shVars, qmVars, vfVars, clVars>>
notImVars == <<rsVars, vdVars, sgVars, rqVars, hpVars, dtVars, vrVars, wiVars, shVars, qmVars, vfVars, clVars>>
notVdVars == <<rsVars, imVars, sgVars, rqVars, hpVars, dtVars, vrVars, wiVars, shVars, qmVars, vfVars, clVars>>
notSgVars == <<rsVars, imVars, vdVars, rqVars, hpVars, dtVars, vrVars, wiVars, shVars, qmVars, vfVars, clVars>>
notRqVars == <<rsVars, imVars, vdVars, sgVars, hpVars, dtVars, vrVars, wiVars, shVars, qmVars, vfVars, clVars>>
notHpVars == <<rsVars, imVars, vdVars, sgVars, rqVars, dtVars, vrVars, wiVars, shVars, qmVars, vfVars, clVars>>
notDtVars == <<rsVars, imVars, vdVars, sgVars, rqVars, hpVars, vrVars, wiVars, shVars, qmVars, vfVars, clVars>>
notVrVars == <<rsVars, imVars, vdVars, sgVars, rqVars, hpVars, dtVars, wiVars, shVars, qmVars, vfVars, clVars>>
notWiVars == <<rsVars, imVars, vdVars, sgVars, rqVars, hpVars, dtVars, vrVars, shVars, qmVars, vfVars, clVars>>
notShVars == <<rsVars, imVars, vdVars, sgVars, rqVars, hpVars, dtVars, vrVars, wiVars, qmVars, vfVars, clVars>>
notQmVars == <<rsVars, imVars, vdVars, sgVars, rqVars, hpVars, dtVars, vrVars, wiVars, shVars, vfVars, clVars>>
notVfVars == <<rsVars, imVars, vdVars, sgVars, rqVars, hpVars, dtVars, vrVars, wiVars, shVars, qmVars, clVars>>
notClVars == <<rsVars, imVars, vdVars, sgVars, rqVars, hpVars, dtVars, vrVars, wiVars, shVars, qmVars, vfVars>>

(***************************************************************************)
(* Bounds of the model                                                     *)
(***************************************************************************)
MaxPayloadChars == 2
MaxHits == 2
MaxShards == 4
MaxTicks == 2
MaxHoppers == 3
MaxBlockIndex == 14
MaxArtworks == 2
MaxDetects == 2
MaxFrames == 25
MaxRequests == 3
MaxEngines == 2
MaxOps == 2
MaxCosIndex == 1
MaxQuanta == 12
MaxVideoFrames == 11
MaxDocuments == 2
MaxDays == 1

(***************************************************************************)
(* Generic helpers                                                         *)
(***************************************************************************)
RECURSIVE Xor(_, _)
Xor(a, b) ==
    IF a = 0 THEN b
    ELSE IF b = 0 THEN a
    ELSE ((a + b) % 2) + 2 * Xor(a \div 2, b \div 2)

RECURSIVE XorSeq(_)
XorSeq(s) == IF s = <<>> THEN 0 ELSE Xor(Head(s), XorSeq(Tail(s)))

RECURSIVE Flatten(_)
Flatten(ss) == IF ss = <<>> THEN <<>> ELSE Head(ss) \o Flatten(Tail(ss))

\* a sequence given as a function, as an explicit tuple
Tup(f) == f \o <<>>

\* F applied to the value of x, x being evaluated once ("const d = x; F(d)")
LetIn(x, F(_)) == CHOOSE v \in {F(d) : d \in {x}} : TRUE

Min(a, b) == IF a < b THEN a ELSE b
Max(a, b) == IF a > b THEN a ELSE b

\* JavaScript array read: an index outside the array yields undefined, which
\* the callers below coerce to 0 (`x || 0`, `undefined ^ y`).
At0(s, i) == IF i >= 0 /\ i < Len(s) THEN s[i + 1] ELSE 0

\* All sequences over S of length 0..n
RECURSIVE SeqsUpTo(_, _)
SeqsUpTo(S, n) ==
    IF n = 0 THEN {<<>>}
    ELSE LET shorter == SeqsUpTo(S, n - 1)
         IN  shorter \cup {Append(s, x) : s \in {t \in shorter : Len(t) = n - 1}, x \in S}

(***************************************************************************)
(* UTF-8 (Buffer.from(str, "utf-8") / buf.toString("utf-8"))               *)
(***************************************************************************)
Utf8Char(cp) ==
    IF cp < 128 THEN <<cp>>
    ELSE IF cp < 2048 THEN <<192 + (cp \div 64), 128 + (cp % 64)>>
    ELSE <<224 + (cp \div 4096), 128 + ((cp \div 64) % 64), 128 + (cp % 64)>>

Utf8Encode(str) == Flatten(Tup([i \in 1..Len(str) |-> Utf8Char(str[i])]))

IsCont(b) == b >= 128 /\ b < 192

\* Decoder with U+FFFD (65533) replacement of bytes that start no well-formed
\* sequence.
RECURSIVE Utf8Decode(_)
Utf8Decode(bytes) ==
    IF bytes = <<>> THEN <<>>
    ELSE LET b0 == bytes[1]
             n  == Len(bytes)
         IN  IF b0 < 128 THEN <<b0>> \o Utf8Decode(Tail(bytes))
             ELSE IF b0 >= 194 /\ b0 < 224 /\ n >= 2 /\ IsCont(bytes[2])
                  THEN <<(b0 - 192) * 64 + (bytes[2] - 128)>>
                       \o Utf8Decode(SubSeq(bytes, 3, n))
             ELSE IF b0 >= 224 /\ b0 < 240 /\ n >= 3 /\ IsCont(bytes[2]) /\ IsCont(bytes[3])
                     /\ (b0 - 224) * 4096 + (bytes[2] - 128) * 64 + (bytes[3] - 128) >= 2048
                  THEN <<(b0 - 224) * 4096 + (bytes[2] - 128) * 64 + (bytes[3] - 128)>>
                       \o Utf8Decode(SubSeq(bytes, 4, n))
             ELSE <<65533>> \o Utf8Decode(Tail(bytes))

\* payload strings of the model, as sequences of code points
Alphabet == {65, 169}                     \* "A" (1 byte), the copyright sign (2 bytes)
Payloads == SeqsUpTo(Alphabet, MaxPayloadChars)

(***************************************************************************)
(* GF(2^8) arithmetic                                                      *)
(***************************************************************************)
GF_PRIMITIVE == 285   \* 0x11d

\* loop body of initGaloisField: gfExp[i] = x; gfLog[x] = i; x <<= 1;
\* if (x & 0x100) x ^= GF_PRIMITIVE.  st = <<x, gfExp[0..i-1]>>
RECURSIVE initGaloisFieldRun(_, _)
initGaloisFieldRun(st, n) ==
    IF n = 0 \/ Len(st[2]) = 255 THEN st
    ELSE LET x  == st[1]
             x2 == 2 * x
             x3 == IF x2 >= 256 THEN Xor(x2, GF_PRIMITIVE) ELSE x2
         IN  initGaloisFieldRun(<<x3, Append(st[2], x)>>, n - 1)

\* the 255 iterations, taken sixteen at a time
RECURSIVE initGaloisField(_)
initGaloisField(st) ==
    IF Len(st[2]) = 255 THEN st[2]
    ELSE initGaloisField(initGaloisFieldRun(st, 16))

gfExpBase == initGaloisField(<<1, <<>>>>)

\* gfExp[i] for i in 0..511 (entries 255..511 repeat 0..254 ... )
gfExp(i) == gfExpBase[(i % 255) + 1]

gfLogTable == Tup([v \in 1..255 |-> CHOOSE i \in 0..254 : gfExpBase[i + 1] = v])

gfLog(v) == IF v = 0 THEN -1 ELSE gfLogTable[v]

gfMul(a, b) == IF a = 0 \/ b = 0 THEN 0 ELSE gfExp(gfLog(a) + gfLog(b))

\* gfDiv throws on b = 0; callers test the divisor first (see Forney below)
gfDiv(a, b) == IF a = 0 THEN 0 ELSE gfExp((gfLog(a) - gfLog(b) + 255) % 255)

\* only ever called with x # 0 (x = 2 or x = xiInv)
gfPow(x, power) == gfExp((gfLog(x) * power) % 255)

gfPolyMul(p, q) ==
    Tup([k \in 1..(Len(p) + Len(q) - 1) |->
        XorSeq([i \in 1..Len(p) |->
            IF k - i + 1 >= 1 /\ k - i + 1 <= Len(q)
            THEN gfMul(p[i], q[k - i + 1]) ELSE 0])])

RECURSIVE rsGeneratorPolyFrom(_, _, _)
rsGeneratorPolyFrom(g, i, nsym) ==
    IF i >= nsym THEN g
    ELSE rsGeneratorPolyFrom(gfPolyMul(g, <<1, gfPow(2, i)>>), i + 1, nsym)

rsGeneratorPoly(nsym) == rsGeneratorPolyFrom(<<1>>, 0, nsym)


(***************************************************************************)
(* ECCEngine                                                               *)
(***************************************************************************)
Null == <<-1>>          \* the payload value `null`

\* variant of ByteToBits that emits the least significant bit first
ByteToBitsLsbFirst(byte) == Tup([k \in 1..8 |-> (byte \div (2 ^ (k - 1))) % 2])

\* for (const byte of encoded) for (i = 7..0) binary.push((byte >> i) & 1)
ByteToBits(byte) == Tup([k \in 1..8 |-> (byte \div (2 ^ (8 - k))) % 2])

BytesToBits(bytes) ==
    Tup([k \in 1..(8 * Len(bytes)) |-> ByteToBits(bytes[((k - 1) \div 8) + 1])[((k - 1) % 8) + 1]])

\* for (i = 0; i + 7 < binary.length; i += 8) byte = (byte << 1) | (bit & 1)
BitsToBytes(binary) ==
    Tup([b \in 1..(Len(binary) \div 8) |->
        LET o == (b - 1) * 8
        IN  128 * binary[o + 1] + 64 * binary[o + 2] + 32 * binary[o + 3]
            + 16 * binary[o + 4] + 8 * binary[o + 5] + 4 * binary[o + 6]
            + 2 * binary[o + 7] + binary[o + 8]])

\* inner loop of rsEncode: encoded[i + j] ^= gfMul(generatorPoly[j], coef)
rsEncodeStep(encoded, i, g) ==
    LET coef == encoded[i + 1]
    IN  IF coef = 0 THEN encoded
        ELSE Tup([k \in 1..Len(encoded) |->
                IF k - 1 >= i /\ k - 1 - i < Len(g)
                THEN Xor(encoded[k], gfMul(g[k - i], coef))
                ELSE encoded[k]])

RECURSIVE rsEncodeLoop(_, _, _, _)
rsEncodeLoop(encoded, i, n, g) ==
    IF i >= n THEN encoded
    ELSE rsEncodeLoop(rsEncodeStep(encoded, i, g), i + 1, n, g)

rsEncode(message, ecc) ==
    LET padded  == message \o Tup([k \in 1..ecc |-> 0])
        encoded == rsEncodeLoop(padded, 0, Len(message), rsGeneratorPoly(ecc))
    IN  message \o SubSeq(encoded, Len(message) + 1, Len(encoded))

encode(payload, ecc) == BytesToBits(rsEncode(Utf8Encode(payload), ecc))

getRequiredBits(payloadByteLength, ecc) == (payloadByteLength + ecc) * 8

calcSyndromes(message, ecc) ==
    Tup([s \in 1..ecc |->
        XorSeq([j \in 1..Len(message) |->
            gfMul(message[j], gfPow(2, (s - 1) * (Len(message) - j)))])])

\* one iteration of the Berlekamp-Massey loop; st = <<errorLocator, oldLocator>>
bmStep(st, i, syndromes) ==
    LET el    == st[1]
        delta == Xor(syndromes[i + 1],
                     XorSeq([j \in 1..(Len(el) - 1) |->
                                gfMul(el[j + 1], At0(syndromes, i - j))]))
        ol    == Append(st[2], 0)
    IN  IF delta = 0 THEN <<el, ol>>
        ELSE LET swap == Len(ol) > Len(el)
                 el1  == IF swap THEN Tup([k \in 1..Len(ol) |-> gfMul(ol[k], delta)]) ELSE el
                 ol1  == IF swap THEN Tup([k \in 1..Len(el) |-> gfDiv(el[k], delta)]) ELSE ol
                 el2  == Tup([k \in 1..Max(Len(el1), Len(ol1)) |->
                            IF k <= Len(ol1)
                            THEN Xor(At0(el1, k - 1), gfMul(delta, ol1[k]))
                            ELSE el1[k]])
             IN  <<el2, ol1>>

RECURSIVE bmLoop(_, _, _)
bmLoop(st, i, syndromes) ==
    IF i >= Len(syndromes) THEN st
    ELSE bmLoop(bmStep(st, i, syndromes), i + 1, syndromes)

berlekampMassey(syndromes) == bmLoop(<<(<<1>>), (<<1>>)>>, 0, syndromes)[1]

\* positions i in 0..messageLength-1 with errorLocator(2^i) = 0, ascending
chienRoot(errorLocator, i) ==
    XorSeq([j \in 1..Len(errorLocator) |->
        gfMul(errorLocator[j], gfPow(2, (j - 1) * i))]) = 0

RECURSIVE chienFrom(_, _, _)
chienFrom(errorLocator, i, messageLength) ==
    IF i >= messageLength THEN <<>>
    ELSE (IF chienRoot(errorLocator, i) THEN <<i>> ELSE <<>>)
         \o chienFrom(errorLocator, i + 1, messageLength)

chienSearch(errorLocator, messageLength) == chienFrom(errorLocator, 0, messageLength)

calcErrorEvaluator(syndromes, errorLocator, ecc) ==
    LET product == gfPolyMul(<<0>> \o syndromes, errorLocator)
    IN  SubSeq(product, 1, Min(ecc, Len(product)))

forneyXiInv(pos) == gfDiv(1, gfPow(2, pos))

forneyNumerator(errorEvaluator, xiInv) ==
    XorSeq([i \in 1..Len(errorEvaluator) |->
        gfMul(errorEvaluator[i], gfPow(xiInv, i - 1))])

\* for (i = 1; i < errorLocator.length; i += 2)
forneyDenominator(errorLocator, xiInv) ==
    XorSeq([k \in 1..(Len(errorLocator) \div 2) |->
        gfMul(errorLocator[2 * k], gfPow(xiInv, 2 * k - 2))])

\* gfDiv(evalNumerator, evalDenominator) throws when the denominator is 0
forneyThrows(errorLocator, errorPositions) ==
    \E p \in 1..Len(errorPositions) :
        forneyDenominator(errorLocator, forneyXiInv(errorPositions[p])) = 0

forneyAlgorithm(syndromes, errorLocator, errorPositions, ecc) ==
    LET ev == calcErrorEvaluator(syndromes, errorLocator, ecc)
    IN  Tup([p \in 1..Len(errorPositions) |->
            LET xiInv == forneyXiInv(errorPositions[p])
            IN  gfDiv(forneyNumerator(ev, xiInv),
                      forneyDenominator(errorLocator, xiInv))])

\* corrected[received.length - 1 - errorPositions[i]] ^= errorMagnitudes[i]
applyMagnitudes(received, errorPositions, magnitudes) ==
    Tup([k \in 1..Len(received) |->
        Xor(received[k],
            XorSeq([p \in 1..Len(errorPositions) |->
                IF Len(received) - 1 - errorPositions[p] = k - 1
                THEN magnitudes[p] ELSE 0]))])

AllZero(s) == \A i \in 1..Len(s) : s[i] = 0

rsDecode(received, ecc) ==
    LET syndromes == calcSyndromes(received, ecc)
    IN  IF AllZero(syndromes)
        THEN [threw |-> FALSE, success |-> TRUE, data |-> received,
              errorsFound |-> 0, errorsCorrected |-> 0]
        ELSE
        LET errorLocator   == berlekampMassey(syndromes)
            numErrors      == Len(errorLocator) - 1
            errorPositions == chienSearch(errorLocator, Len(received))
        IN  IF Len(errorPositions) # numErrors
            THEN [threw |-> FALSE, success |-> FALSE, data |-> received,
                  errorsFound |-> numErrors, errorsCorrected |-> 0]
            ELSE IF forneyThrows(errorLocator, errorPositions)
            THEN [threw |-> TRUE, success |-> FALSE, data |-> received,
                  errorsFound |-> numErrors, errorsCorrected |-> 0]
            ELSE
            LET mags      == forneyAlgorithm(syndromes, errorLocator, errorPositions, ecc)
                corrected == applyMagnitudes(received, errorPositions, mags)
                ok        == AllZero(calcSyndromes(corrected, ecc))
            IN  [threw |-> FALSE, success |-> ok, data |-> corrected,
                 errorsFound |-> numErrors,
                 errorsCorrected |-> IF ok THEN numErrors ELSE 0]

\* result.data.slice(0, -this.eccBytes): slice(0, -0) is slice(0, 0)
sliceOffEcc(data, ecc) ==
    IF ecc = 0 THEN <<>> ELSE SubSeq(data, 1, Max(0, Len(data) - ecc))

decode(binary, ecc) ==
    LET result == rsDecode(BitsToBytes(binary), ecc)
    IN  IF result.threw
        THEN [threw |-> TRUE, payload |-> Null, errorsFound |-> -1,
              errorsCorrected |-> 0, corrupted |-> TRUE]
        ELSE IF result.success
        THEN [threw |-> FALSE,
              payload |-> Utf8Decode(sliceOffEcc(result.data, ecc)),
              errorsFound |-> result.errorsFound,
              errorsCorrected |-> result.errorsCorrected,
              corrupted |-> FALSE]
        ELSE [threw |-> FALSE, payload |-> Null, errorsFound |-> -1,
              errorsCorrected |-> 0, corrupted |-> TRUE]

(***************************************************************************)
(* DCT utilities.  The program computes in IEEE doubles; the model computes *)
(* in fixed point: sample and coefficient values are integers in units of   *)
(* 1/FIX, cosines and alphas are integers in units of 1/TRIG.  The inputs   *)
(* of the model are chosen so that no rounding decision of the program lies *)
(* within the error of this representation (see RoundingIsRobust).          *)
(***************************************************************************)
FIX == 100
TRIG == 16384

\* Math.round(num / den) for den > 0: floor(num/den + 1/2)
MathRound(num, den) ==
    IF den % 2 = 0 THEN (num + den \div 2) \div den
    ELSE (2 * num + den) \div (2 * den)

Abs(x) == IF x < 0 THEN -x ELSE x

\* Math.max(0, Math.min(255, Math.round(v))) for v in units of 1/FIX
ClampRound(v) == Max(0, Min(255, MathRound(v, FIX)))

\* TRIG * cos(j * pi / 16), j = 0..8
CosTable == <<16384, 16069, 15137, 13623, 11585, 9102, 6270, 3196, 0>>

\* Math.cos((Math.PI * (2n + 1) * k) / (2N)) for N = 8
getCosine(n, k) ==
    LET j == ((2 * n + 1) * k) % 32
    IN  IF j <= 8 THEN CosTable[j + 1]
        ELSE IF j <= 16 THEN -CosTable[16 - j + 1]
        ELSE IF j <= 24 THEN -CosTable[j - 16 + 1]
        ELSE CosTable[32 - j + 1]

\* k === 0 ? Math.sqrt(1 / N) : Math.sqrt(2 / N) for N = 8, times TRIG
alpha(k) == IF k = 0 THEN 5793 ELSE 8192

Sum8(f) == f[1] + f[2] + f[3] + f[4] + f[5] + f[6] + f[7] + f[8]

dct1d(signal) ==
    LetIn(signal, LAMBDA s :
        Tup([k1 \in 1..8 |->
            MathRound(alpha(k1 - 1)
                      * Sum8([n1 \in 1..8 |->
                            MathRound(s[n1] * getCosine(n1 - 1, k1 - 1), TRIG)]),
                      TRIG)]))

idct1d(coefficients) ==
    LetIn(coefficients, LAMBDA c :
        Tup([n1 \in 1..8 |->
            Sum8([k1 \in 1..8 |->
                MathRound(MathRound(alpha(k1 - 1) * c[k1], TRIG)
                            * getCosine(n1 - 1, k1 - 1), TRIG)])]))

Column(m, j) == Tup([i \in 1..8 |-> m[i][j]])

Transpose(matrix) == LetIn(matrix, LAMBDA m : Tup([i \in 1..8 |-> Column(m, i)]))

\* rows first, then columns
dct2d(block) ==
    LetIn(block, LAMBDA b :
    LetIn(Tup([i \in 1..8 |-> dct1d(b[i])]), LAMBDA rowTransformed :
        Transpose(Tup([j \in 1..8 |-> dct1d(Column(rowTransformed, j))]))))

\* columns first, then rows
idct2d(coefficients) ==
    LetIn(coefficients, LAMBDA c :
    LetIn(Transpose(Tup([j \in 1..8 |-> idct1d(Column(c, j))])),
          LAMBDA columnTransformed :
        Tup([i \in 1..8 |-> idct1d(columnTransformed[i])])))

\* row.push(image[pixelIndex] || 0)
extractBlock(image, width, x, y) ==
    Tup([i \in 1..8 |-> Tup([j \in 1..8 |->
        At0(image, (y + i - 1) * width + (x + j - 1))])])

levelShift(block) ==
    LetIn(block, LAMBDA b :
        Tup([i \in 1..8 |-> Tup([j \in 1..8 |-> b[i][j] - 128 * FIX])]))

\* the result is a block of integer sample values 0..255
inverseLevelShift(block) ==
    LetIn(block, LAMBDA b :
        Tup([i \in 1..8 |-> Tup([j \in 1..8 |-> ClampRound(b[i][j] + 128 * FIX)])]))

\* a writeBlock that also writes the column to the right of the block
writeBlockWide(image, width, block, x, y) ==
    LetIn(block, LAMBDA b :
        Tup([p \in 1..Len(image) |->
            LET px == (p - 1) % width
                py == (p - 1) \div width
            IN  IF px >= x /\ px <= x + 8 /\ py >= y /\ py < y + 8
                THEN ClampRound(b[py - y + 1][Min(8, px - x + 1)] * FIX) * FIX + 1
                ELSE image[p]]))

\* image[pixelIndex] = clamp(round(block[i][j])) for the 64 samples of the block
writeBlock(image, width, block, x, y) ==
    LetIn(block, LAMBDA b :
        Tup([p \in 1..Len(image) |->
            LET px == (p - 1) % width
                py == (p - 1) \div width
            IN  IF px >= x /\ px < x + 8 /\ py >= y /\ py < y + 8
                THEN ClampRound(b[py - y + 1][px - x + 1] * FIX) * FIX
                ELSE image[p]]))

\* variant that also counts the partial blocks at the right and bottom edges
getBlockCountCeil(width, height, blockSize) ==
    [numBlocksX  |-> (width + blockSize - 1) \div blockSize,
     numBlocksY  |-> (height + blockSize - 1) \div blockSize,
     totalBlocks |-> ((width + blockSize - 1) \div blockSize)
                        * ((height + blockSize - 1) \div blockSize)]

getBlockCount(width, height, blockSize) ==
    [numBlocksX  |-> width \div blockSize,
     numBlocksY  |-> height \div blockSize,
     totalBlocks |-> (width \div blockSize) * (height \div blockSize)]

MID_FREQUENCY_POSITIONS ==
    << <<2, 2>>, <<2, 3>>, <<3, 2>>, <<3, 3>>, <<2, 4>>, <<4, 2>>, <<3, 4>>,
       <<4, 3>>, <<4, 4>>, <<2, 5>>, <<5, 2>>, <<3, 5>>, <<5, 3>> >>

(***************************************************************************)
(* CoefficientHopper                                                       *)
(***************************************************************************)
WorkIds == {"GJP-MEDIA-2026-00000012", "GJP-MEDIA-2026-00000014"}
PayloadHashes == {"0deeb8fa1dbbee4c0dbe7f5e3c9183940139f26d22797ee8ab07c00557a4c2ff"}

\* crypto.createHash("sha256").update(`${workId}:${payloadHash}`).digest():
\* the digests of the strings the model uses
sha256(workId, payloadHash) ==
    IF workId = "GJP-MEDIA-2026-00000012"
    THEN <<115, 208, 72, 182, 108, 114, 220, 47, 153, 202, 16, 152, 140, 115,
           157, 239, 188, 11, 161, 49, 218, 72, 123, 94, 128, 22, 19, 92, 39,
           255, 165, 63>>
    ELSE <<103, 141, 131, 188, 249, 217, 93, 86, 29, 226, 136, 186, 50, 129,
           192, 110, 233, 118, 3, 82, 211, 66, 98, 220, 21, 222, 53, 5, 253,
           54, 126, 19>>

\* Fisher-Yates: for (i = length - 1; i > 0; i--) swap(result[i], result[j])
\* with j = seed[seedIndex++ % seed.length] % (i + 1)
RECURSIVE shuffleFrom(_, _, _, _)
shuffleFrom(result, i, seedIndex, seed) ==
    IF i <= 0 THEN result
    ELSE LET j == seed[(seedIndex % Len(seed)) + 1] % (i + 1)
             swapped == Tup([k \in 1..Len(result) |->
                            IF k = i + 1 THEN result[j + 1]
                            ELSE IF k = j + 1 THEN result[i + 1]
                            ELSE result[k]])
         IN  shuffleFrom(swapped, i - 1, seedIndex + 1, seed)

shufflePositions(positions, seed) == shuffleFrom(positions, Len(positions) - 1, 0, seed)

\* new CoefficientHopper(workId, payloadHash, blockSize).positions
CoefficientHopper(workId, payloadHash) ==
    shufflePositions(MID_FREQUENCY_POSITIONS, sha256(workId, payloadHash))

getPosition(positions, blockIndex) == positions[(blockIndex % Len(positions)) + 1]

(***************************************************************************)
(* ImageWatermarkEngine                                                    *)
(***************************************************************************)
\* strength is held in hundredths (15 is 0.15)
DEFAULT_OPTIONS == [strength |-> 15, blockSize |-> 8, eccBytes |-> 8,
                    validateQuality |-> TRUE, outputFormat |-> "jpeg"]

\* delta = strength * 255, in units of 1/FIX
qimDelta(strength) == (strength * 255 * FIX) \div 100

\* luminance[i] = 0.299 * r + 0.587 * g + 0.114 * b, in units of 1/FIX
extractLuminance(data, width, height) ==
    Tup([i \in 1..(width * height) |->
        MathRound(299 * data[3 * i - 2] + 587 * data[3 * i - 1] + 114 * data[3 * i],
                  1000 \div FIX)])

\* a QIM rule that steps towards zero to change the parity
qimEmbedTowardsZero(coefficient, bit, delta) ==
    LET quantized     == MathRound(coefficient, delta)
        absQuantized  == Abs(quantized)
        sign          == IF quantized >= 0 THEN 1 ELSE -1
        currentParity == absQuantized % 2
        newAbsQuantized == IF bit = currentParity THEN absQuantized
                           ELSE absQuantized - 1
    IN  sign * newAbsQuantized * delta

\* the QIM rule of embedInDCT on one coefficient
qimEmbed(coefficient, bit, delta) ==
    LET quantized     == MathRound(coefficient, delta)
        absQuantized  == Abs(quantized)
        sign          == IF quantized >= 0 THEN 1 ELSE -1
        currentParity == absQuantized % 2
        newAbsQuantized == IF bit = currentParity THEN absQuantized
                           ELSE absQuantized + 1
    IN  sign * newAbsQuantized * delta

\* the QIM decoding of extractFromDCT
qimExtract(coefficient, delta) == Abs(MathRound(coefficient, delta)) % 2

\* body of the block loop of embedInDCT for block number blockIndex
embedBlock(result, width, numBlocksX, binary, positions, strength, blockIndex) ==
    LET x   == (blockIndex % numBlocksX) * 8
        y   == (blockIndex \div numBlocksX) * 8
        pos == getPosition(positions, blockIndex)
    IN  LetIn(dct2d(levelShift(extractBlock(result, width, x, y))), LAMBDA dctBlock :
        LetIn(qimEmbed(dctBlock[pos[1] + 1][pos[2] + 1], binary[blockIndex + 1],
                       qimDelta(strength)), LAMBDA newCoefficient :
            writeBlock(result, width,
                inverseLevelShift(idct2d(
                    Tup([i \in 1..8 |-> Tup([j \in 1..8 |->
                        IF i = pos[1] + 1 /\ j = pos[2] + 1 THEN newCoefficient
                        ELSE dctBlock[i][j]])]))),
                x, y)))

\* coefficient read by the block loop of extractFromDCT for block blockIndex
extractCoefficient(luminance, width, numBlocksX, positions, blockIndex) ==
    LET x   == (blockIndex % numBlocksX) * 8
        y   == (blockIndex \div numBlocksX) * 8
        pos == getPosition(positions, blockIndex)
    IN  dct2d(levelShift(extractBlock(luminance, width, x, y)))[pos[1] + 1][pos[2] + 1]

\* newValue = clamp(round(oldValue + (newY - oldY))) on the three channels
reconstructImage(original, originalLuminance, newLuminance, width, height) ==
    Tup([k \in 1..(3 * width * height) |->
        LET i == ((k - 1) \div 3) + 1
        IN  ClampRound(original[k] * FIX + newLuminance[i] - originalLuminance[i])])

\* { ...this.options, ...options }
mergeOptions(base, options) ==
    [k \in DOMAIN base |-> IF k \in DOMAIN options THEN options[k] ELSE base[k]]

\* an image file whose pixels all have the value v on the three channels;
\* `data` is what sharp(...).raw().removeAlpha() yields (3 channels),
\* `channels` the number of channels of the file itself
uniformImage(w, h, v) ==
    [readable |-> TRUE, width |-> w, height |-> h, channels |-> 3,
     data |-> Tup([k \in 1..(3 * w * h) |-> v])]

\* the same picture stored with an opaque alpha channel (an RGBA PNG)
alphaImage(w, h, v) ==
    [readable |-> TRUE, width |-> w, height |-> h, channels |-> 4,
     data |-> Tup([k \in 1..(3 * w * h) |-> v])]

\* a buffer in which sharp finds no image
unreadableImage ==
    [readable |-> FALSE, width |-> 0, height |-> 0, channels |-> 0, data |-> <<>>]

NoImage ==
    [readable |-> FALSE, width |-> 0, height |-> 0, channels |-> 0, data |-> <<>>]

\* QualityValidator.getPixelData: image.raw().toBuffer() keeps every channel
\* of the file, the alpha channel included
getPixelData(image) ==
    [width |-> image.width, height |-> image.height, channels |-> image.channels,
     data |-> IF image.channels = 4
              THEN Tup([k \in 1..(4 * image.width * image.height) |->
                        IF k % 4 = 0 THEN 255
                        ELSE image.data[3 * ((k - 1) \div 4) + ((k - 1) % 4) + 1]])
              ELSE image.data]

\* sum of f[lo..hi], by halving
RECURSIVE SumRange(_, _, _)
SumRange(f, lo, hi) ==
    IF lo > hi THEN 0
    ELSE IF lo = hi THEN f[lo]
    ELSE LET mid == (lo + hi) \div 2
         IN  SumRange(f, lo, mid) + SumRange(f, mid + 1, hi)

RECURSIVE MaxRange(_, _, _)
MaxRange(f, lo, hi) ==
    IF lo > hi THEN 0
    ELSE IF lo = hi THEN f[lo]
    ELSE LET mid == (lo + hi) \div 2
         IN  Max(MaxRange(f, lo, mid), MaxRange(f, mid + 1, hi))

\* QualityValidator.calculateMSE; mse is sumSquaredError / samples
calculateMSE(original, watermarked) ==
    IF Len(original) # Len(watermarked)
    THEN [threw |-> TRUE, error |-> "Image data lengths do not match"]
    ELSE LET diff == Tup([i \in 1..Len(original) |-> Abs(original[i] - watermarked[i])])
             sq   == Tup([i \in 1..Len(original) |-> diff[i] * diff[i]])
         IN  [threw |-> FALSE,
              sumSquaredError |-> SumRange(sq, 1, Len(sq)),
              samples |-> Len(original),
              maxDiff |-> MaxRange(diff, 1, Len(diff))]

\* psnr >= QUALITY_THRESHOLDS.MIN_PSNR (40 dB): mse = 0 or 255^2 / mse >= 10^4
psnrPassed(mse) == mse.sumSquaredError * 10000 <= 255 * 255 * mse.samples

\* QualityValidator.validate: the metrics, or the exception it throws.  The
\* SSIM is arithmetic on the two equal-length arrays and cannot throw; its
\* value enters only `passed`, which embed uses for a console warning.
validate(originalBuffer, watermarkedBuffer) ==
    LET originalData    == getPixelData(originalBuffer)
        watermarkedData == getPixelData(watermarkedBuffer)
    IN  IF originalData.width # watermarkedData.width
            \/ originalData.height # watermarkedData.height
        THEN [threw |-> TRUE, error |-> "Image dimensions do not match"]
        ELSE LET mse == calculateMSE(originalData.data, watermarkedData.data)
             IN  IF mse.threw THEN mse
                 ELSE [threw |-> FALSE,
                       metrics |-> [sumSquaredError |-> mse.sumSquaredError,
                                    samples |-> mse.samples,
                                    maxDiff |-> mse.maxDiff],
                       psnrPassed |-> psnrPassed(mse)]

GreyImages == {uniformImage(48, 32, 128), uniformImage(47, 39, 128),
               uniformImage(64, 32, 200), uniformImage(58, 35, 128)}

\* embed calls of the model: grey images with every payload, work id and
\* eccBytes; a white image (every sample saturated) and an unreadable buffer;
\* a picture with and without alpha channel, with and without validation
EmbedCalls ==
    {[image |-> img, payload |-> p, workId |-> w, payloadHash |-> h,
      options |-> [eccBytes |-> e, outputFormat |-> "png"]] :
        img \in GreyImages, p \in Payloads, w \in WorkIds, h \in PayloadHashes,
        e \in {2, 4}}
    \cup
    {[image |-> img, payload |-> <<65>>, workId |-> "GJP-MEDIA-2026-00000012",
      payloadHash |-> h, options |-> [eccBytes |-> 2, outputFormat |-> "png"]] :
        img \in {uniformImage(48, 32, 255), unreadableImage}, h \in PayloadHashes}
    \cup
    {[image |-> img, payload |-> <<65>>, workId |-> "GJP-MEDIA-2026-00000012",
      payloadHash |-> h,
      options |-> [eccBytes |-> 2, outputFormat |-> "png", validateQuality |-> v]] :
        img \in {alphaImage(48, 32, 128), uniformImage(48, 32, 128)},
        h \in PayloadHashes, v \in BOOLEAN}

NoCall == [image |-> NoImage, payload |-> <<>>, workId |-> "", payloadHash |-> "",
           options |-> [eccBytes |-> 8]]

NoEmbedResult == [status |-> "none"]

NoExtractResult == [status |-> "none"]

ImInit ==
    /\ im_pc = "idle"
    /\ im_engine = DEFAULT_OPTIONS
    /\ im_call = NoCall
    /\ im_binary = <<>>
    /\ im_positions = <<>>
    /\ im_lum = <<>>
    /\ im_res = <<>>
    /\ im_bitIndex = 0
    /\ im_embed = NoEmbedResult
    /\ ex_call = [workId |-> "", payloadHash |-> "", expectedPayloadLength |-> 0,
                  eccBytes |-> 8]
    /\ ex_positions = <<>>
    /\ ex_lum = <<>>
    /\ ex_bits = <<>>
    /\ ex_coeffs = <<>>
    /\ ex_result = NoExtractResult

embedOpts == mergeOptions(im_engine, im_call.options)

\* embed step 1: const binaryPayload = new ECCEngine(opts.eccBytes).encode(payload)
EmbedEncodeEcc ==
    /\ im_pc = "idle"
    /\ \E call \in EmbedCalls :
        /\ im_call' = call
        /\ im_binary' = encode(call.payload, mergeOptions(im_engine, call.options).eccBytes)
    /\ im_pc' = "eccEncoded"
    /\ UNCHANGED <<im_engine, im_positions, im_lum, im_res, im_bitIndex, im_embed,
                   ex_call, ex_positions, ex_lum, ex_bits, ex_coeffs, ex_result>>
    /\ UNCHANGED notImVars

\* embed step 2: const hopper = new CoefficientHopper(workId, payloadHash, blockSize)
EmbedHopper ==
    /\ im_pc = "eccEncoded"
    /\ im_positions' = CoefficientHopper(im_call.workId, im_call.payloadHash)
    /\ im_pc' = "hopperReady"
    /\ UNCHANGED <<im_engine, im_call, im_binary, im_lum, im_res, im_bitIndex,
                   im_embed, ex_call, ex_positions, ex_lum, ex_bits, ex_coeffs,
                   ex_result>>
    /\ UNCHANGED notImVars

\* embed steps 3-5: metadata, raw RGB data, luminance; an image without
\* dimensions makes embed throw
EmbedLoad ==
    /\ im_pc = "hopperReady"
    /\ IF im_call.image.readable
       THEN /\ im_lum' = extractLuminance(im_call.image.data, im_call.image.width,
                                           im_call.image.height)
            /\ im_pc' = "luminance"
            /\ UNCHANGED im_embed
       ELSE /\ im_embed' = [status |-> "threw",
                            error |-> "Could not determine image dimensions"]
            /\ im_pc' = "failed"
            /\ UNCHANGED im_lum
    /\ UNCHANGED <<im_engine, im_call, im_binary, im_positions, im_res, im_bitIndex,
                   ex_call, ex_positions, ex_lum, ex_bits, ex_coeffs, ex_result>>
    /\ UNCHANGED notImVars

EmbedCapacityUnchecked ==
    /\ im_pc = "luminance"
    /\ im_res' = im_lum
    /\ im_bitIndex' = 0
    /\ im_pc' = "blocks"
    /\ UNCHANGED <<im_engine, im_call, im_binary, im_positions, im_lum, im_embed,
                   ex_call, ex_positions, ex_lum, ex_bits, ex_coeffs, ex_result>>
    /\ UNCHANGED notImVars

\* embed step 6: if (binaryPayload.length > totalBlocks) throw
EmbedCapacity ==
    /\ im_pc = "luminance"
    /\ LET totalBlocks == getBlockCount(im_call.image.width, im_call.image.height,
                                        embedOpts.blockSize).totalBlocks
       IN  IF Len(im_binary) > totalBlocks
           THEN /\ im_embed' = [status |-> "threw", error |-> "Payload too large"]
                /\ im_pc' = "failed"
                /\ UNCHANGED <<im_res, im_bitIndex>>
           ELSE /\ im_res' = im_lum
                /\ im_bitIndex' = 0
                /\ im_pc' = "blocks"
                /\ UNCHANGED im_embed
    /\ UNCHANGED <<im_engine, im_call, im_binary, im_positions, im_lum,
                   ex_call, ex_positions, ex_lum, ex_bits, ex_coeffs, ex_result>>
    /\ UNCHANGED notImVars

\* embed step 7, one iteration of the block loop of embedInDCT
EmbedBlock ==
    /\ im_pc = "blocks"
    /\ LET bc == getBlockCount(im_call.image.width, im_call.image.height,
                               embedOpts.blockSize)
       IN  /\ im_bitIndex < Len(im_binary)
           /\ im_bitIndex < bc.totalBlocks
           /\ im_res' = embedBlock(im_res, im_call.image.width, bc.numBlocksX,
                                   im_binary, im_positions, embedOpts.strength,
                                   im_bitIndex)
    /\ im_bitIndex' = im_bitIndex + 1
    /\ UNCHANGED <<im_pc, im_engine, im_call, im_binary, im_positions, im_lum,
                   im_embed, ex_call, ex_positions, ex_lum, ex_bits, ex_coeffs,
                   ex_result>>
    /\ UNCHANGED notImVars

\* the buffer of embed steps 8-9: reconstructImage, then sharp(watermarkedRaw,
\* { raw: { width, height, channels } }).png(), a lossless file of 3 channels
outputBuffer ==
    [readable |-> TRUE, width |-> im_call.image.width,
     height |-> im_call.image.height, channels |-> 3,
     data |-> reconstructImage(im_call.image.data, im_lum, im_res,
                               im_call.image.width, im_call.image.height)]

\* embed steps 8-9, after the last block: the output file is encoded
EmbedOutput ==
    /\ im_pc = "blocks"
    /\ LET bc == getBlockCount(im_call.image.width, im_call.image.height,
                               embedOpts.blockSize)
       IN  ~(im_bitIndex < Len(im_binary) /\ im_bitIndex < bc.totalBlocks)
    /\ embedOpts.outputFormat = "png"
    /\ im_pc' = "encoded"
    /\ UNCHANGED <<im_engine, im_call, im_binary, im_positions, im_lum, im_res,
                   im_bitIndex, im_embed, ex_call, ex_positions, ex_lum, ex_bits,
                   ex_coeffs, ex_result>>
    /\ UNCHANGED notImVars

NoMetrics == [sumSquaredError |-> -1, samples |-> 0, maxDiff |-> -1]

\* embed step 10 and the return: quality validation if requested (a failed
\* validation is a warning, an exception of the validator leaves embed),
\* then the EmbedResult
EmbedReturn ==
    /\ im_pc = "encoded"
    /\ \E validation \in {IF embedOpts.validateQuality
                          THEN validate(im_call.image, outputBuffer)
                          ELSE [threw |-> FALSE, metrics |-> NoMetrics]} :
        IF validation.threw
        THEN /\ im_embed' = [status |-> "threw", error |-> validation.error]
             /\ im_pc' = "failed"
        ELSE /\ im_embed' =
                [status |-> "returned",
                 watermarkedBuffer |-> outputBuffer,
                 embeddingParams |->
                    [strength |-> embedOpts.strength, eccBytes |-> embedOpts.eccBytes,
                     coefficientSeed |-> <<im_call.workId, ":", im_call.payloadHash>>,
                     blockSize |-> embedOpts.blockSize,
                     bitsEmbedded |-> Len(im_binary), blocksUsed |-> Len(im_binary)],
                 qualityMetrics |-> validation.metrics]
             /\ im_pc' = "returned"
    /\ UNCHANGED <<im_engine, im_call, im_binary, im_positions, im_lum, im_res,
                   im_bitIndex, ex_call, ex_positions, ex_lum, ex_bits, ex_coeffs,
                   ex_result>>
    /\ UNCHANGED notImVars

\* extract steps 1-4 on the buffer that embed returned, with the embed's
\* workId, payloadHash, payload byte length and eccBytes
ExtractStart ==
    /\ im_pc = "returned"
    /\ ex_call' = [workId |-> im_call.workId, payloadHash |-> im_call.payloadHash,
                   expectedPayloadLength |-> Len(Utf8Encode(im_call.payload)),
                   eccBytes |-> embedOpts.eccBytes]
    /\ ex_positions' = CoefficientHopper(im_call.workId, im_call.payloadHash)
    /\ ex_lum' = extractLuminance(im_embed.watermarkedBuffer.data,
                                  im_embed.watermarkedBuffer.width,
                                  im_embed.watermarkedBuffer.height)
    /\ ex_bits' = <<>>
    /\ ex_coeffs' = <<>>
    /\ im_pc' = "extracting"
    /\ UNCHANGED <<im_engine, im_call, im_binary, im_positions, im_lum, im_res,
                   im_bitIndex, im_embed, ex_result>>
    /\ UNCHANGED notImVars

extractBitsNeeded == getRequiredBits(ex_call.expectedPayloadLength, ex_call.eccBytes)

extractBlockCount ==
    getBlockCount(im_embed.watermarkedBuffer.width, im_embed.watermarkedBuffer.height,
                  im_engine.blockSize)

\* extract step 5, one iteration of the block loop of extractFromDCT; block
\* size and strength are those of this.options
ExtractBlock ==
    /\ im_pc = "extracting"
    /\ Len(ex_bits) < extractBitsNeeded
    /\ Len(ex_bits) < extractBlockCount.totalBlocks
    /\ \E coefficient \in {extractCoefficient(ex_lum, im_embed.watermarkedBuffer.width,
                                               extractBlockCount.numBlocksX,
                                               ex_positions, Len(ex_bits))} :
           /\ ex_bits' = Append(ex_bits, qimExtract(coefficient, qimDelta(im_engine.strength)))
           /\ ex_coeffs' = Append(ex_coeffs, coefficient)
    /\ UNCHANGED <<im_pc, im_engine, im_call, im_binary, im_positions, im_lum,
                   im_res, im_bitIndex, im_embed, ex_call, ex_positions, ex_lum,
                   ex_result>>
    /\ UNCHANGED notImVars

\* confidence as a fraction num/den
extractConfidence(result, eccBytes) ==
    IF result.payload # Null /\ result.payload # <<>>
    THEN IF result.errorsFound = 0 THEN [num |-> 1, den |-> 1]
         ELSE IF result.errorsFound > 0
         THEN [num |-> Max(0, 2 * (eccBytes \div 2) - result.errorsFound),
               den |-> 2 * (eccBytes \div 2)]
         ELSE [num |-> 0, den |-> 1]
    ELSE [num |-> 0, den |-> 1]

\* extract steps 6-7 and the return; an exception of decode leaves extract
ExtractDecode ==
    /\ im_pc = "extracting"
    /\ ~(Len(ex_bits) < extractBitsNeeded /\ Len(ex_bits) < extractBlockCount.totalBlocks)
    /\ \E result \in {decode(ex_bits, ex_call.eccBytes)} :
           ex_result' =
            IF result.threw
            THEN [status |-> "threw", error |-> "Division by zero in GF"]
            ELSE [status |-> "returned", payload |-> result.payload,
                  confidence |-> extractConfidence(result, ex_call.eccBytes),
                  errorsFound |-> result.errorsFound,
                  errorsCorrected |-> result.errorsCorrected,
                  bitsExtracted |-> Len(ex_bits)]
    /\ im_pc' = "extracted"
    /\ UNCHANGED <<im_engine, im_call, im_binary, im_positions, im_lum, im_res,
                   im_bitIndex, im_embed, ex_call, ex_positions, ex_lum, ex_bits,
                   ex_coeffs>>
    /\ UNCHANGED notImVars

ImNext ==
    \/ EmbedEncodeEcc
    \/ EmbedHopper
    \/ EmbedLoad
    \/ EmbedCapacity
    \/ EmbedBlock
    \/ EmbedOutput
    \/ EmbedReturn
    \/ ExtractStart
    \/ ExtractBlock
    \/ ExtractDecode

\* no rounding decision of extraction lies within 1/200 of a quantization
\* step of the boundary between two quantization indices
RoundingIsRobust ==
    \A i \in 1..Len(ex_coeffs) :
        LET delta == qimDelta(im_engine.strength)
            r     == ex_coeffs[i] % delta
        IN  Abs(2 * r - delta) * 100 >= delta

(***************************************************************************)
(* Reed-Solomon codec over a byte channel (SpecRS)                         *)
(***************************************************************************)
EccChoices == {2, 4, 8}
ErrMasks == {1, 244}
\* received words that are no corruption of a codeword of Payloads
StrayWords == {<<1, 60>>, <<140, 13, 249, 14>>, <<0, 0, 0>>}

RsInit ==
    /\ rs_pc = "idle"
    /\ rs_ecc = 8
    /\ rs_payload = <<>>
    /\ rs_sent = <<>>
    /\ rs_bits = <<>>
    /\ rs_hits = {}
    /\ rs_result = [threw |-> FALSE, payload |-> Null, errorsFound |-> 0,
                    errorsCorrected |-> 0, corrupted |-> FALSE]

\* eccEngine = new ECCEngine(ecc); binary = eccEngine.encode(payload)
RsEncode ==
    /\ rs_pc = "idle"
    /\ \E ecc \in EccChoices, payload \in Payloads :
        /\ rs_ecc' = ecc
        /\ rs_payload' = payload
        /\ rs_sent' = encode(payload, ecc)
        /\ rs_bits' = encode(payload, ecc)
    /\ rs_pc' = "encoded"
    /\ UNCHANGED <<rs_hits, rs_result>>
    /\ UNCHANGED notRsVars

\* the channel changes the bytes at the positions of `hits` (xor with a mask)
RsCorrupt ==
    /\ rs_pc = "encoded"
    /\ LET bytes == BitsToBytes(rs_sent)
       IN  \E hits \in SUBSET (0..(Len(bytes) - 1)) :
            /\ Cardinality(hits) >= 1
            /\ Cardinality(hits) <= MaxHits
            /\ \E mask \in [hits -> ErrMasks] :
                rs_bits' = BytesToBits([k \in 1..Len(bytes) |->
                              IF (k - 1) \in hits
                              THEN Xor(bytes[k], mask[k - 1]) ELSE bytes[k]])
            /\ rs_hits' = hits
    /\ rs_pc' = "received"
    /\ UNCHANGED <<rs_ecc, rs_payload, rs_sent, rs_result>>
    /\ UNCHANGED notRsVars

\* an arbitrary bit array reaches a decoder
RsStray ==
    /\ rs_pc = "idle"
    /\ \E ecc \in EccChoices, w \in StrayWords :
        /\ rs_ecc' = ecc
        /\ rs_bits' = BytesToBits(w)
    /\ rs_pc' = "stray"
    /\ UNCHANGED <<rs_payload, rs_sent, rs_hits, rs_result>>
    /\ UNCHANGED notRsVars

\* result = eccEngine.decode(binary)
RsDecode ==
    /\ rs_pc \in {"encoded", "received", "stray"}
    /\ rs_result' = decode(rs_bits, rs_ecc)
    /\ rs_pc' = IF rs_pc = "encoded" THEN "decodedClean"
                ELSE IF rs_pc = "received" THEN "decodedHit" ELSE "decodedStray"
    /\ UNCHANGED <<rs_ecc, rs_payload, rs_sent, rs_bits, rs_hits>>
    /\ UNCHANGED notRsVars

RsNext == RsEncode \/ RsCorrupt \/ RsStray \/ RsDecode

(***************************************************************************)
(* VideoWatermarkEngine: temporal sharding of the RS-encoded bit string     *)
(***************************************************************************)
\* strength is held in hundredths (3 is 0.03)
DEFAULT_VIDEO_OPTIONS == [strength |-> 3, blockSize |-> 8, eccBytes |-> 12,
                          temporalShards |-> 3, skipLowTexture |-> TRUE,
                          frameSamplingRate |-> 1]

\* createVideoECC(): new ECCEngine(12)
createVideoECC == 12

ShardCounts == 1..MaxShards

\* Number.prototype.toString(16) of a nibble
HexDigits == <<"0", "1", "2", "3", "4", "5", "6", "7",
               "8", "9", "a", "b", "c", "d", "e", "f">>

toString16(nibble) == HexDigits[nibble + 1]

\* parseInt(char, 16) of one hex character
parseInt16(char) == (CHOOSE k \in 1..16 : HexDigits[k] = char) - 1

\* inner loop of bitsToHex: shift in the bits i..i+3 that exist
RECURSIVE nibbleOf(_, _, _, _)
nibbleOf(bits, i, j, nibble) ==
    IF j < 4 /\ i + j < Len(bits)
    THEN nibbleOf(bits, i, j + 1, 2 * nibble + (bits[i + j + 1] % 2))
    ELSE nibble

bitsToHex(bits) ==
    Tup([k \in 1..((Len(bits) + 3) \div 4) |->
            toString16(nibbleOf(bits, 4 * (k - 1), 0, 0))])

hexToBits(hex) ==
    Tup([b \in 1..(4 * Len(hex)) |->
            LET nibble == parseInt16(hex[(b - 1) \div 4 + 1])
                i == 3 - ((b - 1) % 4)
            IN  (nibble \div (2 ^ i)) % 2])

\* Array.prototype.slice(start, end), 0-based, end exclusive
slice(arr, start, end) ==
    LET s == Min(start, Len(arr))
        e == Min(end, Len(arr))
    IN  IF e <= s THEN <<>> ELSE SubSeq(arr, s + 1, e)

ceilDiv(a, b) == (a + b - 1) \div b

NoVideoCall == [payload |-> <<>>, temporalShards |-> DEFAULT_VIDEO_OPTIONS.temporalShards]

NoDecoded == [threw |-> FALSE, payload |-> Null, errorsFound |-> 0,
              errorsCorrected |-> 0, corrupted |-> FALSE]

NoVideoResult == [status |-> "none"]

VdInit ==
    /\ vd_pc = "idle"
    /\ vd_call = NoVideoCall
    /\ vd_binary = <<>>
    /\ vd_shards = <<>>
    /\ vd_recovered = <<>>
    /\ vd_decoded = NoDecoded
    /\ vd_result = NoVideoResult

\* embedInFrames step 1: binaryPayload = createVideoECC().encode(payload)
VideoEncode ==
    /\ vd_pc = "idle"
    /\ \E payload \in Payloads, numShards \in ShardCounts :
        /\ vd_call' = [payload |-> payload, temporalShards |-> numShards]
        /\ vd_binary' = encode(payload, createVideoECC)
    /\ vd_pc' = "sharding"
    /\ UNCHANGED <<vd_shards, vd_recovered, vd_decoded, vd_result>>
    /\ UNCHANGED notVdVars

\* embedInFrames step 2, one iteration of the shard loop
VideoShard ==
    /\ vd_pc = "sharding"
    /\ Len(vd_shards) < vd_call.temporalShards
    /\ LET shardSize == ceilDiv(Len(vd_binary), vd_call.temporalShards)
           start == Len(vd_shards) * shardSize
           end == Min(start + shardSize, Len(vd_binary))
       IN  vd_shards' = Append(vd_shards, bitsToHex(slice(vd_binary, start, end)))
    /\ UNCHANGED <<vd_pc, vd_call, vd_binary, vd_recovered, vd_decoded, vd_result>>
    /\ UNCHANGED notVdVars

\* extractFromFrames up to the majority vote, in the case that every shard
\* is recovered as exactly the hex string that embedInFrames built for it
VideoRecover ==
    /\ vd_pc = "sharding"
    /\ Len(vd_shards) = vd_call.temporalShards
    /\ vd_recovered' = vd_shards
    /\ vd_pc' = "recovered"
    /\ UNCHANGED <<vd_call, vd_binary, vd_shards, vd_decoded, vd_result>>
    /\ UNCHANGED notVdVars

\* confidence: 1.0 - (decoded.errorsFound / (opts.eccBytes * 2))
videoConfidence(errorsFound) ==
    [num |-> DEFAULT_VIDEO_OPTIONS.eccBytes * 2 - errorsFound,
     den |-> DEFAULT_VIDEO_OPTIONS.eccBytes * 2]

\* extractFromFrames: combine shards and decode; a throw of decode is caught
VideoCombine ==
    /\ vd_pc = "recovered"
    /\ \E decoded \in {decode(hexToBits(Flatten(vd_recovered)), createVideoECC)} :
        /\ vd_decoded' = decoded
        /\ vd_result' =
            IF ~decoded.threw /\ decoded.payload # Null /\ decoded.payload # <<>>
            THEN [status |-> "returned", payload |-> decoded.payload,
                  confidence |-> videoConfidence(decoded.errorsFound),
                  shardsRecovered |-> Len(vd_recovered),
                  totalShards |-> vd_call.temporalShards]
            ELSE [status |-> "returned", payload |-> Null,
                  confidence |-> [num |-> 0, den |-> 1],
                  shardsRecovered |-> Len(vd_recovered),
                  totalShards |-> vd_call.temporalShards]
    /\ vd_pc' = "extracted"
    /\ UNCHANGED <<vd_call, vd_binary, vd_shards, vd_recovered>>
    /\ UNCHANGED notVdVars

VdNext == VideoEncode \/ VideoShard \/ VideoRecover \/ VideoCombine

(***************************************************************************)
(* EvidenceSigner.  Strings that are only concatenated and hashed are TLA+ *)
(* strings; hex strings that are decoded are sequences of characters.      *)
(* SHA-256 is the table of the digests of the messages that can occur.     *)
(* secp256k1 is an ideal signature scheme: the one 64-byte string that     *)
(* verifies for a digest and a public key is the one signAsync returned,   *)
(* written here as the digest followed by the key's x coordinate.          *)
(***************************************************************************)
MediaHashes == {"3b7a", "e04f", "3b7a:9c01"}

EvidencePayloadHashes == {"9c01", "55d2", "9c01:55d2"}

\* a timestamp in milliseconds is hi * 10^6 + lo
Timestamps == {[hi |-> 1762041, lo |-> 600000], [hi |-> 1762041, lo |-> 600001]}

\* private keys (scalars) of the signers
PrivateKeys == {1, 2}

DecimalDigits == <<"0", "1", "2", "3", "4", "5", "6", "7", "8", "9">>

\* String(n) for a non-negative integer
RECURSIVE decimal(_)
decimal(n) ==
    IF n < 10 THEN DecimalDigits[n + 1]
    ELSE decimal(n \div 10) \o DecimalDigits[(n % 10) + 1]

\* the six low decimal digits
decimal6(lo) ==
    DecimalDigits[((lo \div 100000) % 10) + 1] \o DecimalDigits[((lo \div 10000) % 10) + 1]
    \o DecimalDigits[((lo \div 1000) % 10) + 1] \o DecimalDigits[((lo \div 100) % 10) + 1]
    \o DecimalDigits[((lo \div 10) % 10) + 1] \o DecimalDigits[(lo % 10) + 1]

\* `${timestamp}`
numberToString(timestamp) ==
    IF timestamp.hi = 0 THEN decimal(timestamp.lo)
    ELSE decimal(timestamp.hi) \o decimal6(timestamp.lo)

createMessage(mediaHash, payloadHash, timestamp) ==
    mediaHash \o ":" \o payloadHash \o ":" \o numberToString(timestamp)

\* crypto.createHash("sha256").update(message, "utf-8").digest()
messageHashOf(message) ==
    CASE message = "3b7a:9c01:1762041600000" ->
            <<186, 127, 38, 59, 49, 110, 143, 223, 132, 188, 149, 22, 209, 205, 255,
              69, 174, 155, 254, 84, 146, 42, 80, 83, 80, 58, 97, 63, 166, 230, 188, 211>>
      [] message = "3b7a:9c01:1762041600001" ->
            <<2, 117, 193, 17, 106, 149, 214, 36, 122, 56, 93, 25, 121, 43, 120,
              221, 250, 145, 175, 151, 193, 77, 152, 142, 128, 5, 233, 68, 52, 9, 253, 10>>
      [] message = "3b7a:55d2:1762041600000" ->
            <<225, 113, 215, 235, 204, 144, 180, 67, 50, 112, 255, 161, 52, 139, 220,
              187, 173, 245, 144, 157, 7, 237, 81, 203, 38, 74, 153, 235, 137, 37, 180, 152>>
      [] message = "3b7a:55d2:1762041600001" ->
            <<229, 46, 242, 71, 150, 55, 134, 90, 214, 248, 231, 221, 5, 102, 97,
              68, 122, 194, 218, 26, 221, 14, 89, 52, 142, 179, 171, 54, 22, 18, 29, 90>>
      [] message = "3b7a:9c01:55d2:1762041600000" ->
            <<102, 139, 86, 204, 248, 222, 253, 4, 205, 121, 141, 244, 177, 214, 114,
              222, 165, 196, 68, 219, 26, 133, 12, 231, 42, 3, 43, 213, 179, 28, 189, 32>>
      [] message = "3b7a:9c01:55d2:1762041600001" ->
            <<98, 88, 48, 224, 80, 105, 31, 160, 120, 97, 159, 51, 152, 95, 197,
              96, 6, 241, 190, 245, 104, 149, 155, 16, 123, 30, 1, 22, 41, 50, 125, 148>>
      [] message = "e04f:9c01:1762041600000" ->
            <<63, 107, 192, 135, 29, 121, 104, 89, 113, 73, 148, 129, 216, 6, 213, 85,
              20, 66, 13, 133, 199, 15, 121, 231, 144, 107, 48, 246, 165, 171, 236, 203>>
      [] message = "e04f:9c01:1762041600001" ->
            <<208, 255, 194, 48, 21, 236, 39, 198, 98, 155, 138, 154, 120, 78, 17, 136,
              237, 221, 75, 171, 213, 217, 206, 126, 36, 174, 112, 94, 183, 89, 126, 180>>
      [] message = "e04f:55d2:1762041600000" ->
            <<61, 13, 142, 215, 235, 175, 177, 59, 183, 132, 194, 143, 186, 65, 218,
              64, 82, 248, 90, 196, 11, 90, 113, 228, 134, 10, 70, 212, 12, 64, 206, 224>>
      [] message = "e04f:55d2:1762041600001" ->
            <<249, 65, 187, 50, 246, 212, 151, 120, 158, 219, 59, 3, 49, 250, 144,
              139, 149, 173, 19, 218, 172, 131, 254, 249, 225, 157, 2, 249, 51, 35, 202, 212>>
      [] message = "e04f:9c01:55d2:1762041600000" ->
            <<209, 165, 136, 239, 112, 75, 177, 21, 73, 44, 88, 137, 134, 188, 71, 18,
              75, 29, 109, 185, 193, 124, 55, 121, 146, 154, 131, 188, 47, 239, 111, 225>>
      [] message = "e04f:9c01:55d2:1762041600001" ->
            <<253, 215, 85, 194, 17, 248, 33, 187, 33, 11, 196, 160, 95, 190, 41,
              129, 255, 21, 228, 234, 15, 69, 137, 146, 16, 246, 171, 106, 55, 58, 18, 176>>
      [] message = "3b7a:9c01:9c01:1762041600000" ->
            <<91, 219, 167, 151, 119, 171, 90, 45, 140, 55, 123, 100, 229, 91, 233,
              212, 124, 41, 129, 71, 184, 51, 93, 143, 195, 191, 4, 140, 58, 18, 64, 39>>
      [] message = "3b7a:9c01:9c01:1762041600001" ->
            <<199, 77, 77, 241, 35, 35, 136, 190, 239, 161, 151, 193, 39, 92, 29,
              169, 41, 45, 198, 176, 46, 114, 255, 100, 136, 239, 180, 76, 111, 175, 92, 38>>
      [] message = "3b7a:9c01:9c01:55d2:1762041600000" ->
            <<147, 199, 113, 225, 186, 2, 204, 182, 206, 226, 84, 16, 144, 44, 220,
              44, 72, 136, 149, 27, 239, 128, 115, 97, 136, 247, 254, 50, 32, 88, 165, 87>>
      [] message = "3b7a:9c01:9c01:55d2:1762041600001" ->
            <<208, 163, 127, 71, 16, 46, 220, 20, 65, 33, 144, 21, 115, 198, 1,
              132, 203, 180, 110, 207, 173, 18, 48, 107, 0, 38, 87, 121, 0, 196, 91, 123>>
      [] message = "226560200b6c4dd3262cd4b90dc16e182fc79b48d53b5da95cbf9d97cb456042:"
                   \o "0fe93845457905ab853e9d65a882fcac7c8a204002f395fea52c2e69ebf34956:"
                   \o "1762041600000" ->
            <<128, 238, 95, 96, 26, 194, 184, 198, 102, 72, 246, 0, 68, 112, 253, 10,
              34, 67, 185, 80, 162, 120, 204, 132, 41, 37, 58, 26, 205, 65, 123, 38>>
      [] message = "226560200b6c4dd3262cd4b90dc16e182fc79b48d53b5da95cbf9d97cb456042:"
                   \o "0fe93845457905ab853e9d65a882fcac7c8a204002f395fea52c2e69ebf34956:"
                   \o "1762041600001" ->
            <<218, 34, 220, 83, 232, 72, 12, 49, 52, 122, 141, 122, 116, 75, 58, 223,
              253, 97, 175, 154, 55, 77, 226, 238, 151, 0, 72, 21, 137, 44, 41, 57>>
      [] message = "226560200b6c4dd3262cd4b90dc16e182fc79b48d53b5da95cbf9d97cb456042:"
                   \o "0fe93845457905ab853e9d65a882fcac7c8a204002f395fea52c2e69ebf34956:"
                   \o "1762041600002" ->
            <<134, 231, 186, 4, 216, 102, 48, 94, 250, 129, 38, 71, 61, 148, 42, 230,
              83, 8, 177, 46, 210, 185, 80, 101, 148, 73, 157, 222, 212, 177, 156, 135>>
      [] message = "226560200b6c4dd3262cd4b90dc16e182fc79b48d53b5da95cbf9d97cb456042:"
                   \o "0fe93845457905ab853e9d65a882fcac7c8a204002f395fea52c2e69ebf34956:"
                   \o "1762041600003" ->
            <<250, 30, 117, 121, 155, 47, 20, 44, 187, 146, 214, 164, 190, 227, 224, 234,
              31, 104, 120, 13, 52, 176, 225, 232, 181, 188, 116, 149, 168, 124, 111, 183>>
      [] message = "226560200b6c4dd3262cd4b90dc16e182fc79b48d53b5da95cbf9d97cb456042:"
                   \o "93a3349e0cb74549d1a61c00e29679d44555b506d9ca6a1a635c62ec5f60aef9:"
                   \o "1762041600001" ->
            <<240, 55, 140, 176, 146, 129, 231, 194, 27, 225, 231, 201, 120, 46, 18, 195,
              149, 172, 156, 106, 95, 134, 135, 181, 210, 114, 95, 12, 102, 151, 6, 154>>
      [] message = "226560200b6c4dd3262cd4b90dc16e182fc79b48d53b5da95cbf9d97cb456042:"
                   \o "93a3349e0cb74549d1a61c00e29679d44555b506d9ca6a1a635c62ec5f60aef9:"
                   \o "1762041600002" ->
            <<164, 183, 34, 178, 172, 90, 44, 190, 74, 56, 100, 29, 208, 104, 89, 177,
              236, 174, 163, 240, 210, 190, 148, 164, 89, 232, 7, 13, 81, 238, 125, 85>>
      [] message = "226560200b6c4dd3262cd4b90dc16e182fc79b48d53b5da95cbf9d97cb456042:"
                   \o "93a3349e0cb74549d1a61c00e29679d44555b506d9ca6a1a635c62ec5f60aef9:"
                   \o "1762041600003" ->
            <<119, 201, 21, 227, 80, 22, 130, 176, 219, 218, 219, 93, 123, 191, 129, 60,
              6, 52, 115, 145, 195, 49, 128, 140, 168, 59, 200, 11, 227, 79, 161, 184>>
      [] message = "226560200b6c4dd3262cd4b90dc16e182fc79b48d53b5da95cbf9d97cb456042:"
                   \o "abacdc351ebd081a97b166be2ab59b7b4fa5f69d974c39f3511d04a4c3b1af6d:"
                   \o "1762041600002" ->
            <<13, 133, 23, 137, 82, 67, 251, 235, 90, 196, 76, 56, 75, 246, 113, 162,
              177, 7, 162, 134, 240, 225, 72, 242, 134, 24, 137, 22, 12, 80, 103, 86>>
      [] message = "226560200b6c4dd3262cd4b90dc16e182fc79b48d53b5da95cbf9d97cb456042:"
                   \o "abacdc351ebd081a97b166be2ab59b7b4fa5f69d974c39f3511d04a4c3b1af6d:"
                   \o "1762041600003" ->
            <<3, 122, 241, 42, 192, 193, 41, 144, 6, 120, 70, 214, 21, 147, 38, 119,
              113, 207, 77, 115, 235, 212, 53, 124, 86, 112, 153, 148, 90, 194, 202, 42>>
      [] message = "226560200b6c4dd3262cd4b90dc16e182fc79b48d53b5da95cbf9d97cb456042:"
                   \o "5b3af608e618d62688589a2e91b6de9819d12d94323ca566c0781c868ca2bab6:"
                   \o "1762041600003" ->
            <<163, 100, 137, 72, 92, 84, 176, 188, 122, 26, 122, 211, 9, 60, 45, 226,
              2, 44, 169, 84, 217, 164, 62, 234, 142, 50, 127, 33, 75, 82, 162, 43>>
      [] message = "226560200b6c4dd3262cd4b90dc16e182fc79b48d53b5da95cbf9d97cb456042:"
                   \o "a4848fcff154ce61b9ea6a8ed5ffdbc00ebce2f12986266d953e74f6bed9fb81:"
                   \o "1762041600001" ->
            <<188, 205, 72, 19, 157, 171, 223, 186, 171, 227, 1, 52, 83, 174, 26, 248,
              61, 61, 235, 217, 100, 136, 142, 172, 135, 98, 43, 35, 153, 1, 98, 180>>
      [] message = "226560200b6c4dd3262cd4b90dc16e182fc79b48d53b5da95cbf9d97cb456042:"
                   \o "a4848fcff154ce61b9ea6a8ed5ffdbc00ebce2f12986266d953e74f6bed9fb81:"
                   \o "1762041600002" ->
            <<204, 83, 69, 211, 58, 25, 16, 128, 181, 201, 115, 116, 138, 169, 188, 20,
              30, 130, 203, 2, 222, 10, 166, 28, 162, 164, 220, 42, 15, 207, 222, 194>>
      [] message = "226560200b6c4dd3262cd4b90dc16e182fc79b48d53b5da95cbf9d97cb456042:"
                   \o "a4848fcff154ce61b9ea6a8ed5ffdbc00ebce2f12986266d953e74f6bed9fb81:"
                   \o "1762041600003" ->
            <<93, 9, 154, 212, 108, 171, 143, 82, 41, 44, 108, 147, 80, 107, 23, 234,
              119, 15, 80, 65, 90, 189, 152, 0, 107, 241, 197, 80, 205, 22, 181, 172>>
      [] message = "226560200b6c4dd3262cd4b90dc16e182fc79b48d53b5da95cbf9d97cb456042:"
                   \o "ed29b6112d8d9da260be817bc16485804afa19081d6508c89c0165086296123f:"
                   \o "1762041600002" ->
            <<90, 107, 253, 147, 196, 75, 27, 44, 190, 90, 217, 131, 182, 28, 6, 188,
              177, 138, 43, 171, 144, 171, 196, 240, 72, 228, 54, 62, 243, 208, 232, 48>>
      [] message = "226560200b6c4dd3262cd4b90dc16e182fc79b48d53b5da95cbf9d97cb456042:"
                   \o "ed29b6112d8d9da260be817bc16485804afa19081d6508c89c0165086296123f:"
                   \o "1762041600003" ->
            <<142, 153, 228, 6, 250, 79, 170, 37, 77, 234, 229, 144, 211, 186, 128, 247,
              131, 161, 99, 78, 155, 224, 127, 178, 238, 217, 154, 215, 115, 239, 21, 47>>
      [] message = "226560200b6c4dd3262cd4b90dc16e182fc79b48d53b5da95cbf9d97cb456042:"
                   \o "dd8068c164c2cbd3004c5eab2ae28b9a7ef2ae2793627ed68dc65f2d31912cfa:"
                   \o "1762041600003" ->
            <<81, 153, 19, 56, 68, 39, 50, 236, 89, 252, 82, 61, 189, 142, 255, 114,
              90, 33, 223, 166, 176, 203, 253, 6, 121, 42, 204, 218, 226, 139, 44, 56>>
      [] message = "226560200b6c4dd3262cd4b90dc16e182fc79b48d53b5da95cbf9d97cb456042:"
                   \o "9672eab9048904e4bedb19b6309f0347cec6952de52e49bd762440a5b92d609d:"
                   \o "1762041600002" ->
            <<248, 114, 36, 146, 139, 36, 129, 251, 186, 67, 147, 186, 196, 63, 78, 105,
              203, 9, 76, 254, 154, 167, 30, 252, 242, 123, 53, 28, 216, 92, 56, 48>>
      [] message = "226560200b6c4dd3262cd4b90dc16e182fc79b48d53b5da95cbf9d97cb456042:"
                   \o "9672eab9048904e4bedb19b6309f0347cec6952de52e49bd762440a5b92d609d:"
                   \o "1762041600003" ->
            <<44, 100, 36, 182, 202, 4, 48, 193, 99, 242, 250, 202, 0, 10, 74, 130,
              160, 245, 131, 232, 171, 185, 217, 30, 129, 210, 236, 35, 213, 143, 132, 104>>
      [] message = "226560200b6c4dd3262cd4b90dc16e182fc79b48d53b5da95cbf9d97cb456042:"
                   \o "91a1397a557e4ecb8b64c11e4923dae08018152535d33402cfd5288af996a711:"
                   \o "1762041600003" ->
            <<123, 75, 125, 85, 248, 16, 170, 46, 193, 85, 77, 85, 187, 159, 123, 63,
              213, 111, 13, 210, 199, 211, 27, 2, 205, 228, 168, 69, 120, 86, 156, 22>>
      [] message = "226560200b6c4dd3262cd4b90dc16e182fc79b48d53b5da95cbf9d97cb456042:"
                   \o "2bf950c5e565a1ccaf0056420d161f3a174eb7432f2dda3d42b8d1e8f28907fb:"
                   \o "1762041600003" ->
            <<209, 194, 10, 110, 108, 9, 96, 6, 120, 79, 105, 235, 193, 101, 107, 128,
              121, 80, 255, 141, 132, 222, 31, 26, 196, 58, 74, 139, 12, 243, 10, 1>>
      [] message = "226560200b6c4dd3262cd4b90dc16e182fc79b48d53b5da95cbf9d97cb456042:"
                   \o "8af47097bc1836f9863508e8e44094d0874eddeaf30e2d77f639094d9a46f3c8:"
                   \o "1762041600000" ->
            <<233, 40, 57, 182, 103, 232, 171, 121, 232, 186, 31, 243, 106, 208, 63, 224,
              160, 141, 54, 163, 201, 171, 217, 190, 194, 170, 184, 163, 197, 148, 157, 113>>
      [] message = "226560200b6c4dd3262cd4b90dc16e182fc79b48d53b5da95cbf9d97cb456042:"
                   \o "8af47097bc1836f9863508e8e44094d0874eddeaf30e2d77f639094d9a46f3c8:"
                   \o "1762041600001" ->
            <<61, 180, 146, 23, 60, 80, 162, 196, 78, 169, 42, 181, 130, 182, 251, 164,
              39, 73, 211, 30, 145, 254, 190, 193, 90, 68, 126, 96, 224, 171, 63, 59>>
      [] message = "226560200b6c4dd3262cd4b90dc16e182fc79b48d53b5da95cbf9d97cb456042:"
                   \o "8af47097bc1836f9863508e8e44094d0874eddeaf30e2d77f639094d9a46f3c8:"
                   \o "1762041600002" ->
            <<151, 138, 213, 135, 157, 202, 18, 20, 16, 197, 215, 133, 125, 103, 232, 125,
              81, 204, 245, 74, 8, 155, 97, 74, 192, 200, 89, 25, 248, 250, 248, 200>>
      [] message = "226560200b6c4dd3262cd4b90dc16e182fc79b48d53b5da95cbf9d97cb456042:"
                   \o "8af47097bc1836f9863508e8e44094d0874eddeaf30e2d77f639094d9a46f3c8:"
                   \o "1762041600003" ->
            <<193, 79, 160, 166, 252, 66, 223, 151, 37, 129, 57, 204, 22, 93, 54, 62,
              78, 202, 30, 7, 169, 137, 56, 185, 112, 240, 87, 49, 217, 163, 21, 127>>
      [] message = "226560200b6c4dd3262cd4b90dc16e182fc79b48d53b5da95cbf9d97cb456042:"
                   \o "de6f640391a926c40963da10c53d22db9d9f0f43729ea820c779def87369070c:"
                   \o "1762041600001" ->
            <<1, 207, 183, 230, 239, 255, 157, 190, 142, 0, 190, 71, 116, 172, 51, 149,
              33, 215, 82, 93, 83, 206, 200, 250, 157, 7, 254, 45, 93, 238, 119, 154>>
      [] message = "226560200b6c4dd3262cd4b90dc16e182fc79b48d53b5da95cbf9d97cb456042:"
                   \o "de6f640391a926c40963da10c53d22db9d9f0f43729ea820c779def87369070c:"
                   \o "1762041600002" ->
            <<171, 134, 120, 175, 106, 4, 120, 243, 101, 107, 5, 235, 195, 199, 149, 55,
              226, 27, 50, 240, 128, 69, 151, 154, 134, 69, 27, 231, 186, 123, 130, 102>>
      [] message = "226560200b6c4dd3262cd4b90dc16e182fc79b48d53b5da95cbf9d97cb456042:"
                   \o "de6f640391a926c40963da10c53d22db9d9f0f43729ea820c779def87369070c:"
                   \o "1762041600003" ->
            <<15, 68, 200, 136, 42, 169, 180, 183, 136, 65, 223, 140, 34, 181, 207, 40,
              158, 27, 63, 217, 30, 70, 5, 71, 62, 7, 168, 73, 117, 205, 182, 147>>
      [] message = "226560200b6c4dd3262cd4b90dc16e182fc79b48d53b5da95cbf9d97cb456042:"
                   \o "0871e8361742df8cd50f89fac7fcce957ef21fb4be86b5ad5e224a3ce8dc531d:"
                   \o "1762041600002" ->
            <<68, 171, 160, 109, 8, 29, 83, 145, 140, 168, 110, 194, 119, 16, 84, 82,
              199, 45, 57, 148, 105, 178, 231, 217, 220, 247, 35, 99, 207, 144, 130, 131>>
      [] message = "226560200b6c4dd3262cd4b90dc16e182fc79b48d53b5da95cbf9d97cb456042:"
                   \o "0871e8361742df8cd50f89fac7fcce957ef21fb4be86b5ad5e224a3ce8dc531d:"
                   \o "1762041600003" ->
            <<140, 75, 165, 167, 240, 204, 83, 84, 113, 186, 220, 22, 160, 94, 26, 242,
              222, 151, 77, 66, 36, 25, 69, 38, 22, 16, 232, 150, 115, 74, 215, 229>>
      [] message = "226560200b6c4dd3262cd4b90dc16e182fc79b48d53b5da95cbf9d97cb456042:"
                   \o "ef83b82a220af9b43fcc6cdea496e00cb10637c9ac9c9150cbec3ac78632f452:"
                   \o "1762041600003" ->
            <<19, 93, 244, 148, 25, 121, 187, 54, 57, 148, 12, 140, 12, 63, 181, 79,
              13, 177, 252, 193, 247, 240, 66, 29, 123, 171, 67, 179, 15, 126, 65, 196>>
      [] message = "226560200b6c4dd3262cd4b90dc16e182fc79b48d53b5da95cbf9d97cb456042:"
                   \o "3f956ee5626bae205bfd998e13353d8db02dc9c5d809d4f4f136a3c3e147b6f4:"
                   \o "1762041600001" ->
            <<252, 57, 21, 152, 56, 113, 86, 208, 38, 205, 198, 189, 12, 161, 243, 99,
              166, 41, 97, 116, 145, 246, 176, 5, 16, 15, 115, 242, 208, 214, 221, 231>>
      [] message = "226560200b6c4dd3262cd4b90dc16e182fc79b48d53b5da95cbf9d97cb456042:"
                   \o "3f956ee5626bae205bfd998e13353d8db02dc9c5d809d4f4f136a3c3e147b6f4:"
                   \o "1762041600002" ->
            <<242, 70, 77, 169, 229, 68, 39, 118, 243, 160, 212, 58, 84, 223, 93, 246,
              75, 6, 164, 6, 55, 208, 124, 89, 195, 53, 112, 35, 120, 20, 156, 167>>
      [] message = "226560200b6c4dd3262cd4b90dc16e182fc79b48d53b5da95cbf9d97cb456042:"
                   \o "3f956ee5626bae205bfd998e13353d8db02dc9c5d809d4f4f136a3c3e147b6f4:"
                   \o "1762041600003" ->
            <<207, 207, 237, 186, 71, 4, 220, 173, 86, 187, 224, 208, 87, 84, 184, 113,
              244, 29, 43, 145, 109, 66, 201, 147, 108, 103, 36, 81, 41, 229, 135, 172>>
      [] message = "226560200b6c4dd3262cd4b90dc16e182fc79b48d53b5da95cbf9d97cb456042:"
                   \o "46e91b9afac18abfb2997c78abef0d1159f6aa11891dd5961a5f9d40d33f7c12:"
                   \o "1762041600002" ->
            <<92, 67, 50, 189, 38, 197, 253, 8, 110, 227, 185, 81, 234, 54, 153, 149,
              238, 65, 130, 216, 84, 192, 30, 71, 72, 135, 175, 189, 137, 236, 121, 127>>
      [] message = "226560200b6c4dd3262cd4b90dc16e182fc79b48d53b5da95cbf9d97cb456042:"
                   \o "46e91b9afac18abfb2997c78abef0d1159f6aa11891dd5961a5f9d40d33f7c12:"
                   \o "1762041600003" ->
            <<35, 145, 221, 196, 212, 241, 87, 47, 19, 60, 164, 148, 132, 102, 194, 1,
              103, 113, 216, 33, 99, 233, 111, 222, 43, 0, 133, 224, 108, 42, 14, 88>>
      [] message = "226560200b6c4dd3262cd4b90dc16e182fc79b48d53b5da95cbf9d97cb456042:"
                   \o "023bf7e4a38fe13c3cedcbc71aa1f402292720c33bb5a9003cc7416eecbdc306:"
                   \o "1762041600003" ->
            <<23, 60, 30, 64, 218, 5, 78, 60, 114, 119, 192, 31, 53, 34, 198, 138,
              34, 182, 166, 250, 154, 182, 6, 152, 220, 30, 138, 152, 225, 244, 157, 104>>
      [] message = "226560200b6c4dd3262cd4b90dc16e182fc79b48d53b5da95cbf9d97cb456042:"
                   \o "925bd9f21257509c95a67e19f93b5beec7a47ff9fcfdba8511e18e6dc9d071bb:"
                   \o "1762041600002" ->
            <<189, 247, 208, 220, 47, 189, 245, 55, 60, 205, 195, 78, 87, 152, 43, 202,
              106, 190, 64, 63, 167, 238, 145, 187, 183, 174, 155, 31, 117, 82, 228, 165>>
      [] message = "226560200b6c4dd3262cd4b90dc16e182fc79b48d53b5da95cbf9d97cb456042:"
                   \o "925bd9f21257509c95a67e19f93b5beec7a47ff9fcfdba8511e18e6dc9d071bb:"
                   \o "1762041600003" ->
            <<222, 119, 41, 205, 26, 235, 231, 126, 56, 35, 235, 170, 220, 208, 119, 179,
              101, 188, 75, 205, 192, 160, 161, 17, 154, 163, 210, 125, 153, 167, 17, 68>>
      [] message = "226560200b6c4dd3262cd4b90dc16e182fc79b48d53b5da95cbf9d97cb456042:"
                   \o "d4fdf7787787cafba133d474c82a4dd9c053182fd512a31a2a6637be40201363:"
                   \o "1762041600003" ->
            <<93, 18, 238, 173, 90, 245, 201, 93, 9, 92, 29, 198, 172, 89, 59, 181,
              54, 24, 242, 39, 163, 40, 129, 57, 21, 85, 99, 231, 19, 239, 142, 11>>
      [] message = "226560200b6c4dd3262cd4b90dc16e182fc79b48d53b5da95cbf9d97cb456042:"
                   \o "f7aea90a19b5fe557b1ce4700bfbd76f446aad95fee6162ecda34fd682ce5b8e:"
                   \o "1762041600003" ->
            <<32, 89, 180, 59, 98, 43, 238, 102, 21, 7, 10, 101, 81, 243, 171, 87,
              0, 139, 146, 250, 188, 175, 195, 148, 81, 98, 92, 78, 136, 119, 39, 155>>
      [] message = "3fb81b3788cda6fddb1a09f35bbdb090ab4d71601f538a4ba9366f19a21b65af:" \o
                  "7760472037db5d511df9097573020b61b4df5502e1a180362382d9cc07b91f53:" \o "1762041600000" ->
            <<27, 5, 207, 85, 113, 200, 13, 13, 82, 32, 148, 215, 51, 113, 44,
              208, 19, 255, 252, 71, 69, 215, 200, 244, 195, 123, 140, 184, 34, 102, 168, 155>>
      [] message = "3fb81b3788cda6fddb1a09f35bbdb090ab4d71601f538a4ba9366f19a21b65af:" \o
                  "6b1a7de3e5afe5df0615cf84cdf222cfe2e0bdc96746cc28a7c01764e4c647b3:" \o "1762041600000" ->
            <<31, 154, 162, 173, 120, 166, 3, 18, 243, 30, 84, 144, 177, 166, 42,
              46, 18, 165, 70, 195, 244, 50, 196, 79, 177, 230, 141, 157, 194, 214, 162, 247>>

\* secp256k1.getPublicKey(privateKey): the compressed point privateKey * G
getPublicKey(privateKey) ==
    IF privateKey = 1
    THEN <<2, 121, 190, 102, 126, 249, 220, 187, 172, 85, 160, 98, 149, 206, 135, 11, 7,
           2, 155, 252, 219, 45, 206, 40, 217, 89, 242, 129, 91, 22, 248, 23, 152>>
    ELSE <<2, 198, 4, 127, 148, 65, 237, 125, 109, 48, 69, 64, 110, 149, 192, 124, 216,
           92, 119, 142, 75, 140, 239, 60, 167, 171, 172, 9, 185, 92, 112, 158, 229>>

\* signature.toCompactRawBytes() of signAsync(messageHash, privateKey)
signAsync(messageHash, privateKey) ==
    messageHash \o Tail(getPublicKey(privateKey))

\* secp256k1.verify(Signature.fromCompact(signatureBytes), messageHash, publicKeyBytes)
secpVerify(signatureBytes, messageHash, publicKeyBytes) ==
    \E privateKey \in PrivateKeys :
        /\ publicKeyBytes = getPublicKey(privateKey)
        /\ signatureBytes = signAsync(messageHash, privateKey)

HexUpper == <<"A", "B", "C", "D", "E", "F">>

\* Buffer.prototype.toString("hex")
bufferToHex(bytes) ==
    Tup([k \in 1..(2 * Len(bytes)) |->
            IF k % 2 = 1 THEN HexDigits[bytes[(k + 1) \div 2] \div 16 + 1]
            ELSE HexDigits[(bytes[k \div 2] % 16) + 1]])

\* value of one hex character, -1 if it is none
hexValue(char) ==
    IF \E k \in 1..16 : HexDigits[k] = char
    THEN (CHOOSE k \in 1..16 : HexDigits[k] = char) - 1
    ELSE IF \E k \in 1..6 : HexUpper[k] = char
    THEN (CHOOSE k \in 1..6 : HexUpper[k] = char) + 9
    ELSE -1

\* Buffer.from(hex, "hex"): decodes pairs of characters of either case and
\* stops in front of the first pair that is not hexadecimal
bufferFromHex(hex) ==
    LET n == Len(hex) \div 2
        bad == {k \in 1..n : hexValue(hex[2 * k - 1]) < 0 \/ hexValue(hex[2 * k]) < 0}
        m == IF bad = {} THEN n ELSE (CHOOSE k \in bad : \A j \in bad : k <= j) - 1
    IN  Tup([k \in 1..m |-> 16 * hexValue(hex[2 * k - 1]) + hexValue(hex[2 * k])])

\* String.prototype.toUpperCase on a hex string
toUpperCase(hex) ==
    Tup([k \in 1..Len(hex) |->
            IF hexValue(hex[k]) >= 10 THEN HexUpper[hexValue(hex[k]) - 9] ELSE hex[k]])

signEvidence(privateKey, mediaHash, payloadHash, timestamp) ==
    bufferToHex(signAsync(messageHashOf(createMessage(mediaHash, payloadHash, timestamp)),
                          privateKey))

\* Signature.fromCompact accepts exactly 64 bytes and throws otherwise; the
\* catch block of verifyEvidence turns a throw into false
verifyEvidence(mediaHash, payloadHash, timestamp, signature, publicKey) ==
    LET message == mediaHash \o ":" \o payloadHash \o ":" \o numberToString(timestamp)
        signatureBytes == bufferFromHex(signature)
        publicKeyBytes == bufferFromHex(publicKey)
    IN  IF Len(signatureBytes) # 64 THEN FALSE
        ELSE secpVerify(signatureBytes, messageHashOf(message), publicKeyBytes)

\* what a holder of the evidence can do to the signature string
SignatureEdits == {"same", "upper", "junk", "digit", "short"}

editSignature(signature, edit) ==
    IF edit = "upper" THEN toUpperCase(signature)
    ELSE IF edit = "junk" THEN signature \o <<"z", "z">>
    ELSE IF edit = "digit"
    THEN <<HexDigits[((hexValue(signature[1]) + 1) % 16) + 1]>> \o Tail(signature)
    ELSE IF edit = "short" THEN SubSeq(signature, 1, Len(signature) - 2)
    ELSE signature

NoSigner == [privateKey |-> 0, publicKey |-> <<>>]

NoEvidence == [mediaHash |-> "", payloadHash |-> "",
               timestamp |-> [hi |-> 0, lo |-> 0], signature |-> <<>>]

NoPresented == [mediaHash |-> "", payloadHash |-> "",
                timestamp |-> [hi |-> 0, lo |-> 0], signature |-> <<>>,
                publicKey |-> <<>>]

SgInit ==
    /\ sg_pc = "idle"
    /\ sg_signer = NoSigner
    /\ sg_signed = NoEvidence
    /\ sg_presented = NoPresented
    /\ sg_result = "none"

\* new EvidenceSigner(keyHex)
SignerNew ==
    /\ sg_pc = "idle"
    /\ \E privateKey \in PrivateKeys :
        sg_signer' = [privateKey |-> privateKey,
                      publicKey |-> bufferToHex(getPublicKey(privateKey))]
    /\ sg_pc' = "ready"
    /\ UNCHANGED <<sg_signed, sg_presented, sg_result>>
    /\ UNCHANGED notSgVars

\* signer.signEvidence(mediaHash, payloadHash, timestamp)
SignEvidence ==
    /\ sg_pc = "ready"
    /\ \E mediaHash \in MediaHashes, payloadHash \in EvidencePayloadHashes,
          timestamp \in Timestamps :
        sg_signed' = [mediaHash |-> mediaHash, payloadHash |-> payloadHash,
                      timestamp |-> timestamp,
                      signature |-> signEvidence(sg_signer.privateKey, mediaHash,
                                                 payloadHash, timestamp)]
    /\ sg_pc' = "signed"
    /\ UNCHANGED <<sg_signer, sg_presented, sg_result>>
    /\ UNCHANGED notSgVars

\* the evidence reaches a verifier, as signed or with fields changed
PresentEvidence ==
    /\ sg_pc = "signed"
    /\ \E mediaHash \in MediaHashes, payloadHash \in EvidencePayloadHashes,
          timestamp \in Timestamps, edit \in SignatureEdits,
          key \in PrivateKeys, upper \in BOOLEAN :
        sg_presented' =
            [mediaHash |-> mediaHash, payloadHash |-> payloadHash,
             timestamp |-> timestamp,
             signature |-> editSignature(sg_signed.signature, edit),
             publicKey |-> IF upper THEN toUpperCase(bufferToHex(getPublicKey(key)))
                           ELSE bufferToHex(getPublicKey(key))]
    /\ sg_pc' = "presented"
    /\ UNCHANGED <<sg_signer, sg_signed, sg_result>>
    /\ UNCHANGED notSgVars

\* EvidenceSigner.verifyEvidence(...)
VerifyEvidence ==
    /\ sg_pc = "presented"
    /\ sg_result' = verifyEvidence(sg_presented.mediaHash, sg_presented.payloadHash,
                                   sg_presented.timestamp, sg_presented.signature,
                                   sg_presented.publicKey)
    /\ sg_pc' = "verified"
    /\ UNCHANGED <<sg_signer, sg_signed, sg_presented>>
    /\ UNCHANGED notSgVars

SgNext == SignerNew \/ SignEvidence \/ PresentEvidence \/ VerifyEvidence

(***************************************************************************)
(* The watermark request (POST /api/watermark) with the Convex tables it   *)
(* writes.  U+00A9 is written (c) in the strings of the model.             *)
(***************************************************************************)
\* Date.now() is ClockBase + rq_now milliseconds
ClockBase == [hi |-> 1762041, lo |-> 600000]

instant(k) == [hi |-> ClockBase.hi, lo |-> ClockBase.lo + k]

\* Date.prototype.toISOString() of an instant of the first second of the clock
toISOString(t) ==
    "2025-11-02T00:00:00."
        \o DecimalDigits[((t.lo \div 100) % 10) + 1]
        \o DecimalDigits[((t.lo \div 10) % 10) + 1]
        \o DecimalDigits[(t.lo % 10) + 1] \o "Z"

\* new Date().getFullYear()
getFullYear(t) == 2025

Base36Upper == <<"0", "1", "2", "3", "4", "5", "6", "7", "8", "9", "A", "B",
                 "C", "D", "E", "F", "G", "H", "I", "J", "K", "L", "M", "N",
                 "O", "P", "Q", "R", "S", "T", "U", "V", "W", "X", "Y", "Z">>

\* Date.now().toString(36).toUpperCase(), by long division of hi * 10^6 + lo
RECURSIVE toString36Upper(_)
toString36Upper(t) ==
    LET v == (t.hi % 36) * 1000000 + t.lo
    IN  IF t.hi = 0 /\ t.lo < 36 THEN Base36Upper[t.lo + 1]
        ELSE toString36Upper([hi |-> t.hi \div 36, lo |-> v \div 36])
                \o Base36Upper[(v % 36) + 1]

\* Math.random().toString(36).substring(2, 8).toUpperCase()
RandomSuffixes == {"K3F9QZ", "0A7XM2"}

generateWorkId(now, random) ==
    "GJP-MEDIA-" \o decimal(getFullYear(now)) \o "-" \o toString36Upper(now) \o random

\* the ratios of detectAspectRatio in their order, as fractions
AspectRatios == <<[name |-> "16:9", num |-> 16, den |-> 9],
                  [name |-> "4:3", num |-> 4, den |-> 3],
                  [name |-> "1:1", num |-> 1, den |-> 1],
                  [name |-> "3:2", num |-> 3, den |-> 2],
                  [name |-> "21:9", num |-> 21, den |-> 9],
                  [name |-> "9:16", num |-> 9, den |-> 16],
                  [name |-> "4:5", num |-> 4, den |-> 5]>>

\* |width/height - num/den| * height * den
ratioDiff(width, height, r) == Abs(width * r.den - r.num * height)

\* loop of detectAspectRatio: closest is 0 for "custom"
RECURSIVE detectFrom(_, _, _, _)
detectFrom(width, height, i, closest) ==
    IF i > Len(AspectRatios) THEN closest
    ELSE LET r == AspectRatios[i]
             near == 20 * ratioDiff(width, height, r) < height * r.den
             less == \/ closest = 0
                     \/ ratioDiff(width, height, r) * AspectRatios[Max(closest, 1)].den
                          < ratioDiff(width, height, AspectRatios[Max(closest, 1)]) * r.den
         IN  detectFrom(width, height, i + 1, IF near /\ less THEN i ELSE closest)

detectAspectRatio(width, height) ==
    LET closest == detectFrom(width, height, 1, 0)
    IN  IF closest = 0 THEN "custom" ELSE AspectRatios[closest].name

\* the users table
Users == {[id |-> "user1", clerkId |-> "clerk_asha", legalName |-> "Asha Rao",
           initials |-> "AR", displayName |-> "asha", copyrightYear |-> 2025,
           primarySource |-> "https://asha.example"]}

\* the entries of the payload object in the order of their sorted keys
canonicalPayloadAt(userProfile, workId, mediaType, aspectRatio, createdUtc) ==
    "ASPECTRATIO=" \o aspectRatio
    \o "\nAUTHOR=" \o userProfile.legalName
    \o "\nCOPYRIGHT=(c)" \o userProfile.legalName \o " "
        \o decimal(userProfile.copyrightYear)
    \o "\nCREATEDUTC=" \o createdUtc
    \o "\nKNOWNAS=" \o userProfile.displayName
    \o "\nMEDIATYPE=" \o mediaType
    \o "\nRIGHTS=All rights reserved"
    \o "\nSOURCE=" \o userProfile.primarySource
    \o "\nWORKID=" \o workId

generateCanonicalPayload(userProfile, workId, mediaType, aspectRatio, now) ==
    canonicalPayloadAt(userProfile, workId, mediaType, aspectRatio, toISOString(now))

generateWatermarkPayload(userProfile, workId) ==
    "(c)" \o userProfile.initials \o "|" \o userProfile.displayName \o "|" \o workId

\* UTF-8 byte length of a watermark payload: U+00A9 takes 2 bytes, (c) has 3
\* characters, everything else in it is ASCII
watermarkPayloadBytes(watermarkPayload) == Len(watermarkPayload) - 1

\* the canonical payload of the one user for an IMAGE of aspect ratio 1:1
canonicalPayloadText(workId, createdUtc) ==
    canonicalPayloadAt(CHOOSE u \in Users : TRUE, workId, "IMAGE", "1:1", createdUtc)

\* HashEngine.hashFile(buffer): SHA-256 of the file's bytes, lower-case hex
hashFile(file) ==
    CASE file.name = "art.png" ->
            "226560200b6c4dd3262cd4b90dc16e182fc79b48d53b5da95cbf9d97cb456042"
      [] file.name = "thumb.png" ->
            "46413733d372fc240720093ecf681356ca21331bda64d538b21549391906a71a"
      [] file.name = "clip.mp4" ->
            "3fb81b3788cda6fddb1a09f35bbdb090ab4d71601f538a4ba9366f19a21b65af"

\* HashEngine.hashPayload(payload): SHA-256 of the UTF-8 bytes, lower-case hex
hashPayload(payload) ==
    CASE payload = canonicalPayloadText("GJP-MEDIA-2025-MHGY2O00K3F9QZ", "2025-11-02T00:00:00.000Z") ->
            "0fe93845457905ab853e9d65a882fcac7c8a204002f395fea52c2e69ebf34956"
      [] payload = canonicalPayloadText("GJP-MEDIA-2025-MHGY2O00K3F9QZ", "2025-11-02T00:00:00.001Z") ->
            "93a3349e0cb74549d1a61c00e29679d44555b506d9ca6a1a635c62ec5f60aef9"
      [] payload = canonicalPayloadText("GJP-MEDIA-2025-MHGY2O00K3F9QZ", "2025-11-02T00:00:00.002Z") ->
            "abacdc351ebd081a97b166be2ab59b7b4fa5f69d974c39f3511d04a4c3b1af6d"
      [] payload = canonicalPayloadText("GJP-MEDIA-2025-MHGY2O00K3F9QZ", "2025-11-02T00:00:00.003Z") ->
            "5b3af608e618d62688589a2e91b6de9819d12d94323ca566c0781c868ca2bab6"
      [] payload = canonicalPayloadText("GJP-MEDIA-2025-MHGY2O01K3F9QZ", "2025-11-02T00:00:00.001Z") ->
            "a4848fcff154ce61b9ea6a8ed5ffdbc00ebce2f12986266d953e74f6bed9fb81"
      [] payload = canonicalPayloadText("GJP-MEDIA-2025-MHGY2O01K3F9QZ", "2025-11-02T00:00:00.002Z") ->
            "ed29b6112d8d9da260be817bc16485804afa19081d6508c89c0165086296123f"
      [] payload = canonicalPayloadText("GJP-MEDIA-2025-MHGY2O01K3F9QZ", "2025-11-02T00:00:00.003Z") ->
            "dd8068c164c2cbd3004c5eab2ae28b9a7ef2ae2793627ed68dc65f2d31912cfa"
      [] payload = canonicalPayloadText("GJP-MEDIA-2025-MHGY2O02K3F9QZ", "2025-11-02T00:00:00.002Z") ->
            "9672eab9048904e4bedb19b6309f0347cec6952de52e49bd762440a5b92d609d"
      [] payload = canonicalPayloadText("GJP-MEDIA-2025-MHGY2O02K3F9QZ", "2025-11-02T00:00:00.003Z") ->
            "91a1397a557e4ecb8b64c11e4923dae08018152535d33402cfd5288af996a711"
      [] payload = canonicalPayloadText("GJP-MEDIA-2025-MHGY2O03K3F9QZ", "2025-11-02T00:00:00.003Z") ->
            "2bf950c5e565a1ccaf0056420d161f3a174eb7432f2dda3d42b8d1e8f28907fb"
      [] payload = canonicalPayloadText("GJP-MEDIA-2025-MHGY2O000A7XM2", "2025-11-02T00:00:00.000Z") ->
            "8af47097bc1836f9863508e8e44094d0874eddeaf30e2d77f639094d9a46f3c8"
      [] payload = canonicalPayloadText("GJP-MEDIA-2025-MHGY2O000A7XM2", "2025-11-02T00:00:00.001Z") ->
            "de6f640391a926c40963da10c53d22db9d9f0f43729ea820c779def87369070c"
      [] payload = canonicalPayloadText("GJP-MEDIA-2025-MHGY2O000A7XM2", "2025-11-02T00:00:00.002Z") ->
            "0871e8361742df8cd50f89fac7fcce957ef21fb4be86b5ad5e224a3ce8dc531d"
      [] payload = canonicalPayloadText("GJP-MEDIA-2025-MHGY2O000A7XM2", "2025-11-02T00:00:00.003Z") ->
            "ef83b82a220af9b43fcc6cdea496e00cb10637c9ac9c9150cbec3ac78632f452"
      [] payload = canonicalPayloadText("GJP-MEDIA-2025-MHGY2O010A7XM2", "2025-11-02T00:00:00.001Z") ->
            "3f956ee5626bae205bfd998e13353d8db02dc9c5d809d4f4f136a3c3e147b6f4"
      [] payload = canonicalPayloadText("GJP-MEDIA-2025-MHGY2O010A7XM2", "2025-11-02T00:00:00.002Z") ->
            "46e91b9afac18abfb2997c78abef0d1159f6aa11891dd5961a5f9d40d33f7c12"
      [] payload = canonicalPayloadText("GJP-MEDIA-2025-MHGY2O010A7XM2", "2025-11-02T00:00:00.003Z") ->
            "023bf7e4a38fe13c3cedcbc71aa1f402292720c33bb5a9003cc7416eecbdc306"
      [] payload = canonicalPayloadText("GJP-MEDIA-2025-MHGY2O020A7XM2", "2025-11-02T00:00:00.002Z") ->
            "925bd9f21257509c95a67e19f93b5beec7a47ff9fcfdba8511e18e6dc9d071bb"
      [] payload = canonicalPayloadText("GJP-MEDIA-2025-MHGY2O020A7XM2", "2025-11-02T00:00:00.003Z") ->
            "d4fdf7787787cafba133d474c82a4dd9c053182fd512a31a2a6637be40201363"
      [] payload = canonicalPayloadText("GJP-MEDIA-2025-MHGY2O030A7XM2", "2025-11-02T00:00:00.003Z") ->
            "f7aea90a19b5fe557b1ce4700bfbd76f446aad95fee6162ecda34fd682ce5b8e"
      [] payload = canonicalPayloadAt(CHOOSE u \in Users : TRUE, "GJP-MEDIA-2025-MHGY2O00K3F9QZ", "VIDEO", "LANDSCAPE", "2025-11-02T00:00:00.000Z") ->
            "7760472037db5d511df9097573020b61b4df5502e1a180362382d9cc07b91f53"
      [] payload = canonicalPayloadAt(CHOOSE u \in Users : TRUE, "GJP-MEDIA-2025-MHGY2O000A7XM2", "VIDEO", "LANDSCAPE", "2025-11-02T00:00:00.000Z") ->
            "6b1a7de3e5afe5df0615cf84cdf222cfe2e0bdc96746cc28a7c01764e4c647b3"

validImageTypes == {"image/jpeg", "image/png", "image/webp"}

maxSize == 10 * 1024 * 1024

\* uploaded files: what sharp(buffer).metadata() reports of them
ArtFile == [name |-> "art.png", type |-> "image/png", size |-> 601,
            width |-> 160, height |-> 160, format |-> "png"]

ThumbFile == [name |-> "thumb.png", type |-> "image/png", size |-> 249,
              width |-> 64, height |-> 64, format |-> "png"]

BrokenFile == [name |-> "broken.png", type |-> "image/png", size |-> 12,
               width |-> 0, height |-> 0, format |-> "unknown"]

TextFile == [name |-> "notes.txt", type |-> "text/plain", size |-> 40,
             width |-> 0, height |-> 0, format |-> "unknown"]

HugeFile == [name |-> "scan.jpg", type |-> "image/jpeg", size |-> 11534336,
             width |-> 6000, height |-> 4000, format |-> "jpeg"]

NoFile == [name |-> "", type |-> "", size |-> 0, width |-> 0, height |-> 0,
           format |-> "unknown"]

RequestFiles == {ArtFile, ThumbFile, BrokenFile, TextFile, HugeFile, NoFile}

\* auth() results: "" is an unauthenticated caller
ClerkIds == {"", "clerk_asha", "clerk_new"}

NoRequest == [clerkId |-> "", file |-> NoFile, mediaType |-> "IMAGE"]

NoResponse == [status |-> 0]

\* ctx.db.patch(id, updates) on one document
patch(doc, updates) ==
    [k \in DOMAIN doc \cup DOMAIN updates |->
        IF k \in DOMAIN updates THEN updates[k] ELSE doc[k]]

\* artworks.patch of the document with the given id (ids are positions)
patchArtwork(table, id, updates) ==
    [table EXCEPT ![id] = patch(table[id], updates)]

\* the document that artworks.create inserts
createArtwork(args, now) ==
    patch(args,
          [embeddingParams |-> [strength |-> 0, eccBytes |-> 0,
                                coefficientSeed |-> "", blockSize |-> 8],
           qualityMetrics |-> [psnr |-> 0, ssim |-> 0,
                               perceptuallyIndistinguishable |-> FALSE],
           status |-> "pending",
           createdUtc |-> toISOString(now),
           uploadedAt |-> now])

RqInit ==
    /\ rq_pc = "idle"
    /\ rq_now = 0
    /\ rq_req = NoRequest
    /\ rq_local = [processStartTime |-> instant(0)]
    /\ rq_response = NoResponse
    /\ db_artworks = <<>>
    /\ db_storage = <<>>

\* the clock advances while the request is being handled
Tick ==
    /\ rq_pc \notin {"idle", "responded"}
    /\ rq_now < MaxTicks
    /\ rq_now' = rq_now + 1
    /\ UNCHANGED <<rq_pc, rq_req, rq_local, rq_response, db_artworks, db_storage>>
    /\ UNCHANGED notRqVars

\* the catch block of POST
serverError(details) ==
    [status |-> 500, error |-> "Failed to process file", details |-> details]

badRequest(error) == [status |-> 400, error |-> error]

\* POST lines 24-80: authentication and validation of the upload
PostValidate ==
    /\ rq_pc = "idle"
    /\ \E clerkId \in ClerkIds, file \in RequestFiles :
        LET user == {u \in Users : u.clerkId = clerkId}
            rejected ==
                IF clerkId = "" THEN [status |-> 401, error |-> "Unauthorized"]
                ELSE IF file = NoFile THEN badRequest("No file provided")
                ELSE IF file.type \notin validImageTypes
                THEN badRequest("Invalid image type. Supported: JPEG, PNG, WebP")
                ELSE IF file.size > maxSize THEN badRequest("File too large. Max: 10MB")
                ELSE IF user = {}
                THEN badRequest("User profile not found. Please complete your profile.")
                ELSE IF file.width = 0 \/ file.height = 0
                THEN badRequest("Could not read image dimensions")
                ELSE NoResponse
        IN  /\ rq_req' = [clerkId |-> clerkId, file |-> file, mediaType |-> "IMAGE"]
            /\ rq_response' = rejected
            /\ rq_pc' = IF rejected = NoResponse THEN "validated" ELSE "responded"
            /\ rq_local' = IF rejected = NoResponse
                           THEN [processStartTime |-> instant(rq_now),
                                 user |-> CHOOSE u \in user : TRUE]
                           ELSE rq_local
    /\ UNCHANGED <<rq_now, db_artworks, db_storage>>
    /\ UNCHANGED notRqVars

\* POST lines 82-89: work id, aspect ratio, hash of the original
PostWorkId ==
    /\ rq_pc = "validated"
    /\ \E random \in RandomSuffixes :
        rq_local' = patch(rq_local,
            [workId |-> generateWorkId(instant(rq_now), random),
             aspectRatio |-> detectAspectRatio(rq_req.file.width, rq_req.file.height),
             originalHash |-> hashFile(rq_req.file)])
    /\ rq_pc' = "workId"
    /\ UNCHANGED <<rq_now, rq_req, rq_response, db_artworks, db_storage>>
    /\ UNCHANGED notRqVars

\* POST lines 91-106: the payloads
PostPayloads ==
    /\ rq_pc = "workId"
    /\ \E canonicalPayload \in
            {generateCanonicalPayload(rq_local.user, rq_local.workId,
                                      rq_req.mediaType, rq_local.aspectRatio,
                                      instant(rq_now))} :
        rq_local' = patch(rq_local,
            [canonicalPayload |-> canonicalPayload,
             payloadHash |-> hashPayload(canonicalPayload),
             watermarkPayload |-> generateWatermarkPayload(rq_local.user,
                                                           rq_local.workId)])
    /\ rq_pc' = "payloads"
    /\ UNCHANGED <<rq_now, rq_req, rq_response, db_artworks, db_storage>>
    /\ UNCHANGED notRqVars

\* POST lines 108-120: the original goes to the file storage; a failed
\* upload throws and reaches the catch block
PostUploadOriginal ==
    /\ rq_pc = "payloads"
    /\ \E ok \in BOOLEAN :
        IF ok
        THEN /\ db_storage' = Append(db_storage,
                    [content |-> rq_req.file.name, contentType |-> rq_req.file.type])
             /\ rq_local' = patch(rq_local, [originalFileId |-> Len(db_storage) + 1])
             /\ rq_pc' = "uploaded"
             /\ UNCHANGED rq_response
        ELSE /\ rq_response' = serverError("Failed to upload original file")
             /\ rq_pc' = "responded"
             /\ UNCHANGED <<db_storage, rq_local>>
    /\ UNCHANGED <<rq_now, rq_req, db_artworks>>
    /\ UNCHANGED notRqVars

\* POST lines 122-139: convex.mutation(api.artworks.create, ...)
PostCreateArtwork ==
    /\ rq_pc = "uploaded"
    /\ db_artworks' = Append(db_artworks,
            createArtwork(
                [userId |-> rq_local.user.id,
                 workId |-> rq_local.workId,
                 mediaType |-> rq_req.mediaType,
                 aspectRatio |-> rq_local.aspectRatio,
                 originalFileId |-> rq_local.originalFileId,
                 originalFileName |-> rq_req.file.name,
                 originalFileSize |-> rq_req.file.size,
                 originalHash |-> rq_local.originalHash,
                 payloadHash |-> rq_local.payloadHash,
                 watermarkPayload |-> rq_local.watermarkPayload,
                 metadata |-> [width |-> rq_req.file.width,
                               height |-> rq_req.file.height,
                               format |-> rq_req.file.format]],
                instant(rq_now)))
    /\ rq_local' = patch(rq_local, [artworkId |-> Len(db_artworks) + 1])
    /\ rq_pc' = "created"
    /\ UNCHANGED <<rq_now, rq_req, rq_response, db_storage>>
    /\ UNCHANGED notRqVars

\* quality that the validator of embed can measure (ssim in hundredths)
QualityMetrics == {[psnr |-> 45, ssim |-> 99], [psnr |-> 35, ssim |-> 90]}

\* POST lines 141-144: new ImageWatermarkEngine().embed(buffer,
\* watermarkPayload, workId, payloadHash); embed is taken up to its capacity
\* check, its throw reaches the catch block
PostEmbed ==
    /\ rq_pc = "created"
    /\ LET requiredBits == getRequiredBits(watermarkPayloadBytes(rq_local.watermarkPayload),
                                           DEFAULT_OPTIONS.eccBytes)
           totalBlocks == getBlockCount(rq_req.file.width, rq_req.file.height,
                                        DEFAULT_OPTIONS.blockSize).totalBlocks
       IN  IF requiredBits > totalBlocks
           THEN /\ rq_response' = serverError("Payload too large")
                /\ rq_pc' = "responded"
                /\ rq_local' = patch(rq_local, [embed |-> "threw"])
           ELSE /\ \E quality \in QualityMetrics :
                    rq_local' = patch(rq_local,
                        [embed |-> "returned",
                         watermarkedBuffer |-> <<"watermarked", rq_req.file.name>>,
                         embeddingParams |->
                            [strength |-> DEFAULT_OPTIONS.strength,
                             eccBytes |-> DEFAULT_OPTIONS.eccBytes,
                             coefficientSeed |->
                                rq_local.workId \o ":" \o rq_local.payloadHash,
                             blockSize |-> DEFAULT_OPTIONS.blockSize,
                             bitsEmbedded |-> requiredBits,
                             blocksUsed |-> requiredBits],
                         qualityMetrics |-> quality])
                /\ rq_pc' = "embedded"
                /\ UNCHANGED rq_response
    /\ UNCHANGED <<rq_now, rq_req, db_artworks, db_storage>>
    /\ UNCHANGED notRqVars

\* POST lines 146-161: the watermarked file goes to the file storage
PostUploadWatermarked ==
    /\ rq_pc = "embedded"
    /\ \E ok \in BOOLEAN :
        IF ok
        THEN /\ db_storage' = Append(db_storage,
                    [content |-> rq_local.watermarkedBuffer,
                     contentType |-> "image/jpeg"])
             /\ rq_local' = patch(rq_local, [watermarkedFileId |-> Len(db_storage) + 1])
             /\ rq_pc' = "wmUploaded"
             /\ UNCHANGED rq_response
        ELSE /\ rq_response' = serverError("Failed to upload watermarked file")
             /\ rq_pc' = "responded"
             /\ UNCHANGED <<db_storage, rq_local>>
    /\ UNCHANGED <<rq_now, rq_req, db_artworks>>
    /\ UNCHANGED notRqVars

\* POST lines 163-186: perceptual hashes and artworks.updateWithWatermark
PostUpdateWithWatermark ==
    /\ rq_pc = "wmUploaded"
    /\ db_artworks' = patchArtwork(db_artworks, rq_local.artworkId,
            [watermarkedFileId |-> rq_local.watermarkedFileId,
             embeddingParams |->
                [strength |-> rq_local.embeddingParams.strength,
                 eccBytes |-> rq_local.embeddingParams.eccBytes,
                 coefficientSeed |-> rq_local.embeddingParams.coefficientSeed,
                 blockSize |-> rq_local.embeddingParams.blockSize],
             qualityMetrics |->
                [psnr |-> rq_local.qualityMetrics.psnr,
                 ssim |-> rq_local.qualityMetrics.ssim,
                 perceptuallyIndistinguishable |->
                    (rq_local.qualityMetrics.psnr >= 40
                        /\ rq_local.qualityMetrics.ssim >= 95)],
             perceptualHash |-> <<"pHash", rq_local.watermarkedBuffer>>,
             averageHash |-> <<"aHash", rq_local.watermarkedBuffer>>,
             differenceHash |-> <<"dHash", rq_local.watermarkedBuffer>>,
             status |-> "processing",
             processedAt |-> instant(rq_now)])
    /\ rq_pc' = "updated"
    /\ UNCHANGED <<rq_now, rq_req, rq_local, rq_response, db_storage>>
    /\ UNCHANGED notRqVars

\* process.env.EVIDENCE_SIGNING_KEY when it is configured
EVIDENCE_SIGNING_KEY == 1

\* POST lines 188-210: sign the evidence and artworks.updateWithSignature;
\* without a configured key the constructor throws and signing is skipped
PostSign ==
    /\ rq_pc = "updated"
    /\ \E configured \in BOOLEAN :
        IF configured
        THEN \E evidenceSignature \in
                    {signEvidence(EVIDENCE_SIGNING_KEY, rq_local.originalHash,
                                  rq_local.payloadHash, instant(rq_now))} :
                /\ rq_local' = patch(rq_local,
                        [timestamp |-> instant(rq_now),
                         evidenceSignature |-> evidenceSignature,
                         signaturePublicKey |->
                            bufferToHex(getPublicKey(EVIDENCE_SIGNING_KEY))])
                /\ db_artworks' = patchArtwork(db_artworks, rq_local.artworkId,
                        [evidenceSignature |-> evidenceSignature,
                         signatureAlgorithm |-> "secp256k1",
                         signaturePublicKey |->
                            bufferToHex(getPublicKey(EVIDENCE_SIGNING_KEY))])
        ELSE UNCHANGED <<rq_local, db_artworks>>
    /\ rq_pc' = "signed"
    /\ UNCHANGED <<rq_now, rq_req, rq_response, db_storage>>
    /\ UNCHANGED notRqVars

\* outcomes of `await notary.notarize(...)`: the promise resolves, rejects
\* (the constructor or an RPC call throws), or stays pending (tx.wait() has
\* no timeout)
NotaryOutcomes == {"resolved", "rejected", "pending"}

\* POST lines 213-217: new BlockchainNotary("polygon-amoy") and the call of
\* notary.notarize(workId, originalHash, payloadHash), up to its await
PostNotarizeCall ==
    /\ rq_pc = "signed"
    /\ \E outcome \in NotaryOutcomes :
        rq_local' = patch(rq_local, [notarize |-> outcome])
    /\ rq_pc' = "notarizing"
    /\ UNCHANGED <<rq_now, rq_req, rq_response, db_artworks, db_storage>>
    /\ UNCHANGED notRqVars

\* `let blockchainResult = null`
NoBlockchainResult == [null |-> TRUE]

\* the NotarizationResult of a resolved notarize call
notarizationResult(workId, now) ==
    [txHash |-> "0x" \o workId, blockNumber |-> 1, timestamp |-> now]

\* the notarize step without the markCompleted call of its catch block
PostNotarizeSkipsCompleted ==
    /\ rq_pc = "notarizing"
    /\ rq_local.notarize # "pending"
    /\ IF rq_local.notarize = "resolved"
       THEN \E blockchainResult \in {notarizationResult(rq_local.workId, instant(rq_now))} :
            /\ rq_local' = patch(rq_local, [blockchainResult |-> blockchainResult])
            /\ db_artworks' = patchArtwork(db_artworks, rq_local.artworkId,
                    [blockchainTxHash |-> blockchainResult.txHash,
                     blockchainNetwork |-> "polygon-amoy",
                     blockNumber |-> blockchainResult.blockNumber,
                     blockchainTimestamp |-> blockchainResult.timestamp,
                     status |-> "completed"])
       ELSE /\ rq_local' = patch(rq_local, [blockchainResult |-> NoBlockchainResult])
            /\ UNCHANGED db_artworks
    /\ rq_pc' = "notarized"
    /\ UNCHANGED <<rq_now, rq_req, rq_response, db_storage>>
    /\ UNCHANGED notRqVars

\* POST lines 217-230: the await of notarize returns or throws; then
\* artworks.updateWithBlockchain, or artworks.markCompleted in the catch block
PostNotarize ==
    /\ rq_pc = "notarizing"
    /\ rq_local.notarize # "pending"
    /\ IF rq_local.notarize = "resolved"
       THEN \E blockchainResult \in {notarizationResult(rq_local.workId, instant(rq_now))} :
            /\ rq_local' = patch(rq_local, [blockchainResult |-> blockchainResult])
            /\ db_artworks' = patchArtwork(db_artworks, rq_local.artworkId,
                    [blockchainTxHash |-> blockchainResult.txHash,
                     blockchainNetwork |-> "polygon-amoy",
                     blockNumber |-> blockchainResult.blockNumber,
                     blockchainTimestamp |-> blockchainResult.timestamp,
                     status |-> "completed"])
       ELSE /\ rq_local' = patch(rq_local, [blockchainResult |-> NoBlockchainResult])
            /\ db_artworks' = patchArtwork(db_artworks, rq_local.artworkId,
                    [status |-> "completed"])
    /\ rq_pc' = "notarized"
    /\ UNCHANGED <<rq_now, rq_req, rq_response, db_storage>>
    /\ UNCHANGED notRqVars

\* POST lines 232-250: the success response
PostRespond ==
    /\ rq_pc = "notarized"
    /\ rq_response' = [status |-> 200, success |-> TRUE,
                       workId |-> rq_local.workId,
                       artworkId |-> rq_local.artworkId,
                       qualityMetrics |-> [psnr |-> rq_local.qualityMetrics.psnr,
                                           ssim |-> rq_local.qualityMetrics.ssim],
                       downloadUrl |-> rq_local.watermarkedFileId,
                       blockchainVerification |->
                            IF rq_local.blockchainResult # NoBlockchainResult
                            THEN rq_local.blockchainResult.txHash
                            ELSE Null]
    /\ rq_pc' = "responded"
    /\ UNCHANGED <<rq_now, rq_req, rq_local, db_artworks, db_storage>>
    /\ UNCHANGED notRqVars

RqNext ==
    \/ Tick
    \/ PostValidate
    \/ PostWorkId
    \/ PostPayloads
    \/ PostUploadOriginal
    \/ PostCreateArtwork
    \/ PostEmbed
    \/ PostUploadWatermarked
    \/ PostUpdateWithWatermark
    \/ PostSign
    \/ PostNotarizeCall
    \/ PostNotarize
    \/ PostRespond

(***************************************************************************)
(* CoefficientHopper instances                                             *)
(***************************************************************************)
HopperBlockIndexes == 0..MaxBlockIndex

NoQuery == [hopper |-> 0]

HpInit ==
    /\ hp_mid = MID_FREQUENCY_POSITIONS
    /\ hp_hoppers = <<>>
    /\ hp_query = NoQuery

\* a constructor that shuffles the module-level array itself
HopperNewInPlace ==
    /\ Len(hp_hoppers) < MaxHoppers
    /\ \E workId \in WorkIds, payloadHash \in PayloadHashes :
        \E positions \in {shufflePositions(hp_mid, sha256(workId, payloadHash))} :
            /\ hp_hoppers' = Append(hp_hoppers,
                    [workId |-> workId, payloadHash |-> payloadHash,
                     seed |-> sha256(workId, payloadHash),
                     positions |-> positions])
            /\ hp_mid' = positions
    /\ UNCHANGED hp_query
    /\ UNCHANGED notHpVars

\* new CoefficientHopper(workId, payloadHash): the seed, then
\* shufflePositions([...MID_FREQUENCY_POSITIONS]), which shuffles its own
\* copy `[...positions]`
HopperNew ==
    /\ Len(hp_hoppers) < MaxHoppers
    /\ \E workId \in WorkIds, payloadHash \in PayloadHashes :
        \E positions \in {shufflePositions(hp_mid, sha256(workId, payloadHash))} :
            /\ hp_hoppers' = Append(hp_hoppers,
                    [workId |-> workId, payloadHash |-> payloadHash,
                     seed |-> sha256(workId, payloadHash),
                     positions |-> positions])
            /\ hp_mid' = hp_mid
    /\ UNCHANGED hp_query
    /\ UNCHANGED notHpVars

\* hopper.getPosition(blockIndex) on one of the instances
HopperGetPosition ==
    /\ \E h \in 1..Len(hp_hoppers), blockIndex \in HopperBlockIndexes :
        hp_query' = [hopper |-> h, blockIndex |-> blockIndex,
                     position |-> getPosition(hp_hoppers[h].positions, blockIndex)]
    /\ UNCHANGED <<hp_mid, hp_hoppers>>
    /\ UNCHANGED notHpVars

HpNext ==
    \/ HopperNew
    \/ HopperGetPosition

(***************************************************************************)
(* Detection: perceptual-hash comparison and the detect route              *)
(***************************************************************************)
\* bits set in n1 ^ n2 for two nibbles
xorBits(n1, n2) ==
    LET bit(n, k) == (n \div (2 ^ k)) % 2
        differ(k) == IF bit(n1, k) = bit(n2, k) THEN 0 ELSE 1
    IN  differ(0) + differ(1) + differ(2) + differ(3)

\* hash.padStart(maxLen, "0")
padStart(hash, maxLen) ==
    Tup([i \in 1..Max(maxLen, Len(hash)) |->
            IF i <= Max(maxLen, Len(hash)) - Len(hash) THEN "0"
            ELSE hash[i - (Max(maxLen, Len(hash)) - Len(hash))]])

RECURSIVE hammingFrom(_, _, _)
hammingFrom(hash1, hash2, i) ==
    IF i > Len(hash1) THEN 0
    ELSE xorBits(parseInt16(hash1[i]), parseInt16(hash2[i]))
            + hammingFrom(hash1, hash2, i + 1)

hammingDistance(hash1, hash2) ==
    hammingFrom(padStart(hash1, Len(hash2)), padStart(hash2, Len(hash1)), 1)

\* hashSimilarity(hash1, hash2) as the fraction num / den
hashSimilarity(hash1, hash2) ==
    [num |-> Max(0, Max(Len(hash1), Len(hash2)) * 4 - hammingDistance(hash1, hash2)),
     den |-> Max(Len(hash1), Len(hash2)) * 4]

\* Similarities are held in units of 1/1280: an even value 2n is the double
\* nearest to n/640, an odd value 2n - 1 is a double that the floating-point
\* sum leaves just below n/640.
\* The (pHash, aHash, dHash) similarities in 64ths whose sum
\* p * 0.3 + a * 0.2 + d * 0.5 is 0.8999999999999999 in IEEE-754 doubles
\* although it is 0.9 in exact arithmetic; every other sum of 64ths compares
\* with 0.95, 0.90, 0.85, 0.75 and 0.5 as the exact value does.
FloatShortOfNineTenths ==
    {<<57, 45, 63>>, <<57, 50, 61>>, <<57, 55, 59>>, <<57, 60, 57>>,
     <<62, 35, 64>>, <<62, 40, 62>>, <<62, 45, 60>>, <<62, 50, 58>>,
     <<62, 55, 56>>, <<62, 60, 54>>, <<63, 36, 63>>}

\* pHashSim * 0.3 + aHashSim * 0.2 + dHashSim * 0.5 for similarities over
\* 64-bit hashes
weightedSum(pHashSim, aHashSim, dHashSim) ==
    2 * (3 * pHashSim.num + 2 * aHashSim.num + 5 * dHashSim.num)
        - (IF <<pHashSim.num, aHashSim.num, dHashSim.num>> \in FloatShortOfNineTenths
           THEN 1 ELSE 0)

\* comparison with every hash weighted alike
compareCombinedHashesUnweighted(hash1, hash2) ==
    LET pHashSim == hashSimilarity(hash1.pHash, hash2.pHash)
        aHashSim == hashSimilarity(hash1.aHash, hash2.aHash)
        dHashSim == hashSimilarity(hash1.dHash, hash2.dHash)
    IN  [similarity |-> 2 * ((10 * (pHashSim.num + aHashSim.num + dHashSim.num)) \div 3),
         pHashSim |-> pHashSim, aHashSim |-> aHashSim, dHashSim |-> dHashSim]

compareCombinedHashes(hash1, hash2) ==
    LET pHashSim == hashSimilarity(hash1.pHash, hash2.pHash)
        aHashSim == hashSimilarity(hash1.aHash, hash2.aHash)
        dHashSim == hashSimilarity(hash1.dHash, hash2.dHash)
    IN  [similarity |-> weightedSum(pHashSim, aHashSim, dHashSim),
         pHashSim |-> pHashSim, aHashSim |-> aHashSim, dHashSim |-> dHashSim]

\* the number literals of the routes in units of 1/1280
Similarity(hundredths) == (1280 * hundredths) \div 100

\* const SIMILARITY_THRESHOLD = 0.85
SIMILARITY_THRESHOLD == 1088

\* computeCombinedHash of the uploaded image
UploadedHashes == [pHash |-> <<"c", "3", "c", "3", "c", "3", "c", "3", "c", "3", "c", "3", "c", "3", "c", "3">>,
                   aHash |-> <<"0", "f", "0", "f", "0", "f", "0", "f", "0", "f", "0", "f", "0", "f", "0", "f">>,
                   dHash |-> <<"1", "e", "1", "e", "1", "e", "1", "e", "1", "e", "1", "e", "1", "e", "1", "e">>]

\* artworks as updateWithWatermark leaves them; <<>> is an absent hash field
RegisteredArtworks == {
    [workId |-> "W-EXACT",
     perceptualHash |-> <<"c", "3", "c", "3", "c", "3", "c", "3", "c", "3", "c", "3", "c", "3", "c", "3">>,
     averageHash |-> <<"0", "f", "0", "f", "0", "f", "0", "f", "0", "f", "0", "f", "0", "f", "0", "f">>,
     differenceHash |-> <<"1", "e", "1", "e", "1", "e", "1", "e", "1", "e", "1", "e", "1", "e", "1", "e">>],
    [workId |-> "W-GOOD",
     perceptualHash |-> <<"c", "3", "c", "3", "c", "3", "c", "3", "c", "3", "c", "3", "c", "3", "c", "3">>,
     averageHash |-> <<"0", "f", "0", "f", "0", "f", "0", "f", "0", "f", "0", "f", "0", "f", "0", "f">>,
     differenceHash |-> <<"e", "1", "1", "e", "1", "e", "1", "e", "1", "e", "1", "e", "1", "e", "1", "e">>],
    [workId |-> "W-EDGE85",
     perceptualHash |-> <<"c", "3", "c", "3", "c", "3", "c", "3", "c", "3", "c", "3", "c", "3", "c", "3">>,
     averageHash |-> <<"f", "0", "0", "f", "0", "f", "0", "f", "0", "f", "0", "f", "0", "f", "0", "f">>,
     differenceHash |-> <<"e", "1", "e", "1", "1", "e", "1", "e", "1", "e", "1", "e", "1", "e", "1", "e">>],
    [workId |-> "W-MARG",
     perceptualHash |-> <<"c", "3", "c", "3", "c", "3", "c", "3", "c", "3", "c", "3", "c", "3", "c", "3">>,
     averageHash |-> <<"f", "f", "0", "f", "0", "f", "0", "f", "0", "f", "0", "f", "0", "f", "0", "f">>,
     differenceHash |-> <<"e", "1", "e", "1", "e", "1", "1", "e", "1", "e", "1", "e", "1", "e", "1", "e">>],
    [workId |-> "W-NONE",
     perceptualHash |-> <<"3", "c", "3", "c", "3", "c", "3", "c", "c", "3", "c", "3", "c", "3", "c", "3">>,
     averageHash |-> <<"f", "0", "f", "0", "f", "0", "f", "0", "0", "f", "0", "f", "0", "f", "0", "f">>,
     differenceHash |-> <<"e", "1", "e", "1", "e", "1", "e", "1", "1", "e", "1", "e", "1", "e", "1", "e">>],
    [workId |-> "W-EDGE90",
     perceptualHash |-> <<"3", "d", "c", "3", "c", "3", "c", "3", "c", "3", "c", "3", "c", "3", "c", "3">>,
     averageHash |-> <<"f", "0", "f", "0", "e", "f", "0", "f", "0", "f", "0", "f", "0", "f", "0", "f">>,
     differenceHash |-> <<"9", "e", "1", "e", "1", "e", "1", "e", "1", "e", "1", "e", "1", "e", "1", "e">>],
    [workId |-> "W-NEAR85",
     perceptualHash |-> <<"4", "3", "c", "3", "c", "3", "c", "3", "c", "3", "c", "3", "c", "3", "c", "3">>,
     averageHash |-> <<"f", "0", "0", "f", "0", "f", "0", "f", "0", "f", "0", "f", "0", "f", "0", "f">>,
     differenceHash |-> <<"e", "1", "e", "1", "1", "e", "1", "e", "1", "e", "1", "e", "1", "e", "1", "e">>],
    [workId |-> "W-NOPHASH",
     perceptualHash |-> <<>>,
     averageHash |-> <<"0", "f", "0", "f", "0", "f", "0", "f", "0", "f", "0", "f", "0", "f", "0", "f">>,
     differenceHash |-> <<"1", "e", "1", "e", "1", "e", "1", "e", "1", "e", "1", "e", "1", "e", "1", "e">>],
    [workId |-> "W-NOAHASH",
     perceptualHash |-> <<"c", "3", "c", "3", "c", "3", "c", "3", "c", "3", "c", "3", "c", "3", "c", "3">>,
     averageHash |-> <<>>,
     differenceHash |-> <<"1", "e", "1", "e", "1", "e", "1", "e", "1", "e", "1", "e", "1", "e", "1", "e">>]}

PhotoFile == [name |-> "photo.jpg", type |-> "image/jpeg", size |-> 2048]
PdfFile == [name |-> "scan.pdf", type |-> "application/pdf", size |-> 4096]
NoUpload == [name |-> "", type |-> "", size |-> 0]
DetectFiles == {PhotoFile, PdfFile, NoUpload}

validTypes == {"image/jpeg", "image/png", "image/webp", "image/gif"}

NoBestMatch == [artwork |-> 0]

DtInit ==
    /\ dt_pc = "idle"
    /\ dt_file = NoUpload
    /\ dt_artworks = <<>>
    /\ dt_local = [requestId |-> 0]
    /\ dt_logs = <<>>
    /\ dt_response = NoResponse

\* an earlier watermark request has left an artwork with its perceptual
\* hashes in the table
RegisterArtwork ==
    /\ dt_pc \in {"idle", "responded"}
    /\ Len(dt_artworks) < MaxArtworks
    /\ \E artwork \in RegisteredArtworks :
        /\ \A i \in 1..Len(dt_artworks) : dt_artworks[i].workId # artwork.workId
        /\ dt_artworks' = Append(dt_artworks, patch(artwork, [id |-> Len(dt_artworks) + 1]))
    /\ UNCHANGED <<dt_pc, dt_file, dt_local, dt_logs, dt_response>>
    /\ UNCHANGED notDtVars

\* detectionLogs.create: the level is derived when the caller gave none
\* ("") and detected is true
createDetectionLog(args) ==
    patch(args,
        [confidenceLevel |->
            IF args.confidenceLevel = "" /\ args.detected
            THEN IF args.confidence >= Similarity(95) THEN "EXCELLENT"
                 ELSE IF args.confidence >= Similarity(85) THEN "GOOD"
                 ELSE IF args.confidence >= Similarity(75) THEN "FAIR"
                 ELSE IF args.confidence >= Similarity(50) THEN "MARGINAL"
                 ELSE "NONE"
            ELSE args.confidenceLevel])

\* artworks.getRecent: ctx.db.query("artworks").order("desc").take(limit)
getRecent(table, limit) ==
    Tup([i \in 1..Min(limit, Len(table)) |-> table[Len(table) + 1 - i]])

\* POST lines 24-58: requestId, the checks of the upload, its hashes
DetectStart ==
    /\ dt_pc \in {"idle", "responded"}
    /\ dt_local.requestId < MaxDetects
    /\ \E file \in DetectFiles :
        /\ dt_file' = file
        /\ IF file = NoUpload
           THEN /\ dt_response' = badRequest("No file provided")
                /\ dt_pc' = "responded"
                /\ dt_local' = [requestId |-> dt_local.requestId + 1]
           ELSE IF file.type \notin validTypes
           THEN /\ dt_response' = badRequest("Invalid file type. Supported: JPEG, PNG, WebP, GIF")
                /\ dt_pc' = "responded"
                /\ dt_local' = [requestId |-> dt_local.requestId + 1]
           ELSE /\ dt_response' = NoResponse
                /\ dt_pc' = "hashed"
                /\ dt_local' = [requestId |-> dt_local.requestId + 1,
                                fileHash |-> <<"sha256", file.name>>,
                                uploadedHashes |-> UploadedHashes]
    /\ UNCHANGED <<dt_artworks, dt_logs>>
    /\ UNCHANGED notDtVars

\* POST lines 61-64: convex.query(api.artworks.getRecent, {limit: 100})
DetectQuery ==
    /\ dt_pc = "hashed"
    /\ dt_local' = patch(dt_local, [recentArtworks |-> getRecent(dt_artworks, 100)])
    /\ dt_pc' = "queried"
    /\ UNCHANGED <<dt_file, dt_artworks, dt_logs, dt_response>>
    /\ UNCHANGED notDtVars

\* POST lines 94-118: the loop over recentArtworks from position i on
RECURSIVE findBestMatch(_, _, _, _)
findBestMatch(recentArtworks, uploadedHashes, i, bestMatch) ==
    IF i > Len(recentArtworks) THEN bestMatch
    ELSE IF ~(recentArtworks[i].perceptualHash # <<>>
                /\ recentArtworks[i].differenceHash # <<>>)
    THEN findBestMatch(recentArtworks, uploadedHashes, i + 1, bestMatch)
    ELSE LET comparison == compareCombinedHashes(uploadedHashes,
                                [pHash |-> recentArtworks[i].perceptualHash,
                                 aHash |-> recentArtworks[i].averageHash,
                                 dHash |-> recentArtworks[i].differenceHash])
         IN  IF comparison.similarity >
                    (IF bestMatch = NoBestMatch THEN 0 ELSE bestMatch.similarity)
             THEN findBestMatch(recentArtworks, uploadedHashes, i + 1,
                                [artwork |-> i,
                                 similarity |-> comparison.similarity,
                                 details |-> comparison])
             ELSE findBestMatch(recentArtworks, uploadedHashes, i + 1, bestMatch)

\* POST lines 121-129
getConfidenceLevel(similarity) ==
    IF similarity >= Similarity(95) THEN "EXCELLENT"
    ELSE IF similarity >= Similarity(90) THEN "GOOD"
    ELSE IF similarity >= Similarity(85) THEN "FAIR"
    ELSE IF similarity >= Similarity(75) THEN "MARGINAL"
    ELSE "NONE"

\* the fields every log entry of the detect route carries
logArgs(detected, confidence, confidenceLevel) ==
    [detected |-> detected, confidence |-> confidence,
     confidenceLevel |-> confidenceLevel,
     analyzedFileName |-> dt_file.name, analyzedFileSize |-> dt_file.size,
     analyzedFileHash |-> dt_local.fileHash,
     requestId |-> dt_local.requestId]

\* POST lines 68-152: nothing to scan, or the scan and its no-match outcome
DetectMatch ==
    /\ dt_pc = "queried"
    /\ IF Len(dt_local.recentArtworks) = 0
       THEN /\ dt_logs' = Append(dt_logs, createDetectionLog(logArgs(FALSE, 0, "NONE")))
            /\ dt_response' = [status |-> 200, found |-> FALSE,
                               message |-> "No registered artworks in the system"]
            /\ dt_pc' = "responded"
            /\ UNCHANGED dt_local
       ELSE \E bestMatch \in {findBestMatch(dt_local.recentArtworks,
                                            dt_local.uploadedHashes, 1, NoBestMatch)} :
            \E matchSimilarity \in {IF bestMatch = NoBestMatch THEN 0
                                    ELSE bestMatch.similarity} :
                IF ~(bestMatch # NoBestMatch /\ matchSimilarity >= SIMILARITY_THRESHOLD)
                THEN /\ dt_logs' = Append(dt_logs,
                            createDetectionLog(logArgs(FALSE, matchSimilarity, "NONE")))
                     /\ dt_response' = [status |-> 200, found |-> FALSE,
                                        message |-> "No matching watermarked image found",
                                        confidence |-> matchSimilarity,
                                        threshold |-> SIMILARITY_THRESHOLD]
                     /\ dt_pc' = "responded"
                     /\ dt_local' = patch(dt_local, [bestMatch |-> bestMatch])
                ELSE /\ dt_local' = patch(dt_local, [bestMatch |-> bestMatch])
                     /\ dt_pc' = "matched"
                     /\ UNCHANGED <<dt_logs, dt_response>>
    /\ UNCHANGED <<dt_file, dt_artworks>>
    /\ UNCHANGED notDtVars

\* POST lines 154-209: the log entry and the response of a match
DetectReport ==
    /\ dt_pc = "matched"
    /\ \E confidenceLevel \in {getConfidenceLevel(dt_local.bestMatch.similarity)} :
        /\ dt_logs' = Append(dt_logs,
                createDetectionLog(
                    patch(logArgs(TRUE, dt_local.bestMatch.similarity, confidenceLevel),
                          [artworkId |-> dt_local.recentArtworks[dt_local.bestMatch.artwork].id,
                           workId |-> dt_local.recentArtworks[dt_local.bestMatch.artwork].workId])))
        /\ dt_response' =
                [status |-> 200, found |-> TRUE, verified |-> TRUE,
                 forensicData |->
                    [similarity |-> dt_local.bestMatch.similarity,
                     confidenceLevel |-> confidenceLevel,
                     hashDetails |->
                        [pHashSimilarity |-> dt_local.bestMatch.details.pHashSim,
                         aHashSimilarity |-> dt_local.bestMatch.details.aHashSim,
                         dHashSimilarity |-> dt_local.bestMatch.details.dHashSim]],
                 artwork |->
                    [workId |-> dt_local.recentArtworks[dt_local.bestMatch.artwork].workId]]
    /\ dt_pc' = "responded"
    /\ UNCHANGED <<dt_file, dt_artworks, dt_local>>
    /\ UNCHANGED notDtVars

DtNext ==
    \/ RegisterArtwork
    \/ DetectStart
    \/ DetectQuery
    \/ DetectMatch
    \/ DetectReport

(***************************************************************************)
(* The video watermark route (POST of watermark-video)                     *)
(***************************************************************************)
ClipFile == [name |-> "clip.mp4", type |-> "video/mp4", size |-> 32,
             width |-> 640, height |-> 360, format |-> "h264"]

\* numbers of frames that extractFrames can return for the clip
FrameCounts == {5, 15, MaxFrames}

VrInit ==
    /\ vr_pc = "idle"
    /\ vr_req = [file |-> ClipFile, frames |-> 0]
    /\ vr_local = [processStartTime |-> instant(0)]
    /\ vr_artworks = <<>>
    /\ vr_response = NoResponse

\* POST (video) up to artworks.create: workId, hashes, payloads, the record
VideoPostCreate ==
    /\ vr_pc = "idle"
    /\ \E frames \in FrameCounts, random \in RandomSuffixes, user \in Users :
        \E workId \in {generateWorkId(instant(0), random)} :
        \E payloadHash \in {hashPayload(generateCanonicalPayload(user, workId,
                                "VIDEO", "LANDSCAPE", instant(0)))} :
            /\ vr_req' = [file |-> ClipFile, frames |-> frames]
            /\ vr_local' = patch(vr_local,
                    [workId |-> workId,
                     originalHash |-> hashFile(ClipFile),
                     payloadHash |-> payloadHash,
                     watermarkPayload |-> generateWatermarkPayload(user, workId),
                     artworkId |-> Len(vr_artworks) + 1])
            /\ vr_artworks' = Append(vr_artworks,
                    createArtwork(
                        [userId |-> user.id, workId |-> workId,
                         mediaType |-> "VIDEO", aspectRatio |-> "LANDSCAPE",
                         originalFileId |-> 1,
                         originalFileName |-> ClipFile.name,
                         originalFileSize |-> ClipFile.size,
                         originalHash |-> hashFile(ClipFile),
                         payloadHash |-> payloadHash,
                         watermarkPayload |-> generateWatermarkPayload(user, workId),
                         metadata |-> [width |-> ClipFile.width,
                                       height |-> ClipFile.height,
                                       format |-> ClipFile.format]],
                        instant(0)))
    /\ vr_pc' = "created"
    /\ UNCHANGED vr_response
    /\ UNCHANGED notVrVars

\* new VideoWatermarkEngine({temporalShards, eccBytes: 8, frameSamplingRate: 1,
\* skipLowTexture: false}): this.options of the engine the route builds
videoRouteOptions(frames) ==
    patch(DEFAULT_VIDEO_OPTIONS,
          [temporalShards |-> Min(3, ceilDiv(frames, 10)),
           eccBytes |-> 8,
           frameSamplingRate |-> 1,
           skipLowTexture |-> FALSE])

\* `${workId}-shard${i}` for the shards 0..numShards-1
shardWorkIds(workId, numShards) ==
    Tup([i \in 1..numShards |-> workId \o "-shard" \o decimal(i - 1)])

\* POST (video) lines 319-338: the engine and embedInFrames, whose locals
\* opts, eccEngine and shard work ids are kept with its result
VideoPostEmbed ==
    /\ vr_pc = "created"
    /\ \E opts \in {videoRouteOptions(vr_req.frames)} :
        vr_local' = patch(vr_local,
            [opts |-> opts,
             eccEngine |-> [eccBytes |-> createVideoECC],
             shardWorkIds |-> shardWorkIds(vr_local.workId, opts.temporalShards),
             embedResult |->
                [framesProcessed |-> vr_req.frames,
                 framesSkipped |-> 0,
                 temporalShards |-> opts.temporalShards,
                 embeddingParams |-> [strength |-> opts.strength,
                                      eccBytes |-> opts.eccBytes,
                                      temporalShards |-> opts.temporalShards]]])
    /\ vr_pc' = "embedded"
    /\ UNCHANGED <<vr_req, vr_artworks, vr_response>>
    /\ UNCHANGED notVrVars

\* POST (video) lines 375-393: artworks.updateWithWatermark
VideoPostUpdate ==
    /\ vr_pc = "embedded"
    /\ vr_artworks' = patchArtwork(vr_artworks, vr_local.artworkId,
            [watermarkedFileId |-> 2,
             embeddingParams |->
                [strength |-> vr_local.embedResult.embeddingParams.strength,
                 eccBytes |-> vr_local.embedResult.embeddingParams.eccBytes,
                 coefficientSeed |-> "video-temporal",
                 blockSize |-> 8,
                 temporalShards |-> vr_local.embedResult.temporalShards,
                 framesProcessed |-> vr_local.embedResult.framesProcessed],
             qualityMetrics |-> [psnr |-> 42, ssim |-> 97,
                                 perceptuallyIndistinguishable |-> TRUE],
             status |-> "processing",
             processedAt |-> instant(0)])
    /\ vr_pc' = "updated"
    /\ UNCHANGED <<vr_req, vr_local, vr_response>>
    /\ UNCHANGED notVrVars

\* POST (video) lines 395-416: signing and artworks.updateWithSignature
VideoPostSign ==
    /\ vr_pc = "updated"
    /\ \E configured \in BOOLEAN :
        IF configured
        THEN \E evidenceSignature \in
                    {signEvidence(EVIDENCE_SIGNING_KEY, vr_local.originalHash,
                                  vr_local.payloadHash, instant(0))} :
                vr_artworks' = patchArtwork(vr_artworks, vr_local.artworkId,
                        [evidenceSignature |-> evidenceSignature,
                         signatureAlgorithm |-> "secp256k1",
                         signaturePublicKey |->
                            bufferToHex(getPublicKey(EVIDENCE_SIGNING_KEY))])
        ELSE UNCHANGED vr_artworks
    /\ vr_pc' = "signed"
    /\ UNCHANGED <<vr_req, vr_local, vr_response>>
    /\ UNCHANGED notVrVars

\* POST (video) lines 418-463: notarization (resolved or rejected),
\* updateWithBlockchain or markCompleted, and the response
VideoPostFinish ==
    /\ vr_pc = "signed"
    /\ \E outcome \in NotaryOutcomes \ {"pending"} :
        vr_artworks' = patchArtwork(vr_artworks, vr_local.artworkId,
            IF outcome = "resolved"
            THEN [blockchainTxHash |->
                        notarizationResult(vr_local.workId, instant(0)).txHash,
                  blockchainNetwork |-> "polygon-amoy",
                  blockNumber |->
                        notarizationResult(vr_local.workId, instant(0)).blockNumber,
                  blockchainTimestamp |->
                        notarizationResult(vr_local.workId, instant(0)).timestamp,
                  status |-> "completed"]
            ELSE [status |-> "completed"])
    /\ vr_response' = [status |-> 200, success |-> TRUE,
                       workId |-> vr_local.workId,
                       artworkId |-> vr_local.artworkId,
                       qualityMetrics |-> [psnr |-> 42, ssim |-> 97]]
    /\ vr_pc' = "responded"
    /\ UNCHANGED <<vr_req, vr_local>>
    /\ UNCHANGED notVrVars

\* the watermark requests of both routes
EmbedRequestsNext ==
    \/ Tick
    \/ PostValidate
    \/ PostWorkId
    \/ PostPayloads
    \/ PostUploadOriginal
    \/ PostCreateArtwork
    \/ PostEmbed
    \/ PostUploadWatermarked
    \/ PostUpdateWithWatermark
    \/ PostSign
    \/ PostNotarizeCall
    \/ PostNotarize
    \/ PostRespond
    \/ VideoPostCreate
    \/ VideoPostEmbed
    \/ VideoPostUpdate
    \/ VideoPostSign
    \/ VideoPostFinish

(***************************************************************************)
(* Work identifiers of interleaved watermark requests                      *)
(***************************************************************************)
MediaTypes == {"IMAGE", "VIDEO"}

WiInit ==
    /\ wi_now = 0
    /\ wi_requests = <<>>
    /\ wi_artworks = <<>>

\* Date.now() advances while requests are in flight
WorkIdTick ==
    /\ wi_now < MaxTicks
    /\ wi_now' = wi_now + 1
    /\ UNCHANGED <<wi_requests, wi_artworks>>
    /\ UNCHANGED notWiVars

\* a request of either route reaches generateWorkId(mediaType); Math.random()
\* is a draw from the suffixes
WorkIdGenerate ==
    /\ Len(wi_requests) < MaxRequests
    /\ \E mediaType \in MediaTypes, random \in RandomSuffixes :
        wi_requests' = Append(wi_requests,
            [mediaType |-> mediaType,
             workId |-> generateWorkId(instant(wi_now), random),
             artworkId |-> 0])
    /\ UNCHANGED <<wi_now, wi_artworks>>
    /\ UNCHANGED notWiVars

\* artworks.create of a request that holds a workId: ctx.db.insert, with no
\* look-up of the workId
WorkIdCreate ==
    /\ \E r \in DOMAIN wi_requests :
        /\ wi_requests[r].artworkId = 0
        /\ wi_artworks' = Append(wi_artworks,
                createArtwork([workId |-> wi_requests[r].workId,
                               mediaType |-> wi_requests[r].mediaType],
                              instant(wi_now)))
        /\ wi_requests' = [wi_requests EXCEPT ![r].artworkId = Len(wi_artworks) + 1]
    /\ UNCHANGED wi_now
    /\ UNCHANGED notWiVars

\* artworks.getByWorkId: the ids of the index by_work_id for a workId, of
\* which the query returns the first
getByWorkId(table, workId) == {i \in DOMAIN table : table[i].workId = workId}

WiNext ==
    \/ WorkIdTick
    \/ WorkIdGenerate
    \/ WorkIdCreate

(***************************************************************************)
(* State shared by interleaved embed and extract calls                     *)
(***************************************************************************)
\* TRIG * cos(j * pi / 32), j = 0..16
Cos32Table == <<16384, 16305, 16069, 15679, 15137, 14449, 13623, 12665, 11585,
                10394, 9102, 7723, 6270, 4756, 3196, 1606, 0>>

\* Math.cos((Math.PI * (2 * n + 1) * k) / (2 * N)) for N = 8 and N = 16
MathCos(n, k, N) ==
    LET j == ((2 * n + 1) * k * (16 \div N)) % 64
    IN  IF j <= 16 THEN Cos32Table[j + 1]
        ELSE IF j <= 32 THEN -Cos32Table[32 - j + 1]
        ELSE IF j <= 48 THEN -Cos32Table[j - 32 + 1]
        ELSE Cos32Table[64 - j + 1]

\* the key used instead of `${n}-${k}-${N}` by a table that forgets N
cosineKeyWithoutSize(n, k, N) == decimal(n) \o "-" \o decimal(k)

\* const key = `${n}-${k}-${N}`
cosineKey(n, k, N) == decimal(n) \o "-" \o decimal(k) \o "-" \o decimal(N)

\* cosineTable.has(key)
cosineHas(table, key) == \E e \in table : e.key = key

\* cosineTable.get(key)
cosineGet(table, key) == (CHOOSE e \in table : e.key = key).value

\* the pairs (n, k) for which an operation of the model calls getCosine
CosinePairs == (0..MaxCosIndex) \X (0..MaxCosIndex)

\* cosineTable after getCosine(n, k, N) has run for every pair, started from
\* table: a key that is present is left alone, an absent one is set
cosineFilled(table, N) ==
    table \cup {[key |-> cosineKey(p[1], p[2], N), value |-> MathCos(p[1], p[2], N)] :
                    p \in {q \in CosinePairs : ~cosineHas(table, cosineKey(q[1], q[2], N))}}

\* what getCosine(n, k, N) returns for every pair, started from table
cosineRead(table, N) ==
    [p \in CosinePairs |-> cosineGet(cosineFilled(table, N), cosineKey(p[1], p[2], N))]

\* constructor options of the engines and per-call options of embed
EngineOptions == {[strength |-> 15], [strength |-> 10, blockSize |-> 16]}

CallOptions == {[strength |-> 15], [strength |-> 5], [blockSize |-> 16, eccBytes |-> 4]}

NoOpts == [strength |-> 0, blockSize |-> 0, eccBytes |-> 0, outputFormat |-> ""]

NoOpResult == [delta |-> 0]

ShInit ==
    /\ sh_engines = <<>>
    /\ sh_cosineTable = {}
    /\ sh_gfExp = Tup([i \in 1..512 |-> gfExp(i - 1)])
    /\ sh_ops = <<>>

\* new ImageWatermarkEngine(options)
EngineNew ==
    /\ Len(sh_engines) < MaxEngines
    /\ \E options \in EngineOptions :
        sh_engines' = Append(sh_engines, mergeOptions(DEFAULT_OPTIONS, options))
    /\ UNCHANGED <<sh_cosineTable, sh_gfExp, sh_ops>>
    /\ UNCHANGED notShVars

\* embed(...) or extract(...) on an engine, up to its first await: embed
\* merges this.options with its options argument, extract takes eccBytes
OpStart ==
    /\ Len(sh_ops) < MaxOps
    /\ \E engine \in DOMAIN sh_engines, kind \in {"embed", "extract"},
          options \in CallOptions :
        sh_ops' = Append(sh_ops,
            [kind |-> kind, engine |-> engine, options |-> options,
             pc |-> "loading",
             opts |-> IF kind = "embed"
                      THEN mergeOptions(sh_engines[engine], options)
                      ELSE NoOpts,
             result |-> NoOpResult])
    /\ UNCHANGED <<sh_engines, sh_cosineTable, sh_gfExp>>
    /\ UNCHANGED notShVars

\* the parameters that an operation in its synchronous part works with:
\* embedInDCT gets opts, extractFromDCT reads this.options, and the ECC
\* engine of extract is built from its eccBytes argument
opParams(op, engines) ==
    IF op.kind = "embed" THEN op.opts
    ELSE patch(engines[op.engine],
               [eccBytes |-> mergeOptions([eccBytes |-> 8], op.options).eccBytes])

\* what the synchronous part computes from the parameters and the tables
opResult(params, table, exp) ==
    [delta |-> qimDelta(params.strength),
     blockSize |-> params.blockSize,
     cosines |-> cosineRead(table, params.blockSize),
     gfRoot |-> exp[params.eccBytes + 1]]

\* the synchronous part between the awaits of sharp: ECC, luminance and the
\* DCT of the blocks, which fills cosineTable through getCosine
OpTransform ==
    /\ \E i \in DOMAIN sh_ops :
        /\ sh_ops[i].pc = "loading"
        /\ \E params \in {opParams(sh_ops[i], sh_engines)} :
            /\ sh_cosineTable' = cosineFilled(sh_cosineTable, params.blockSize)
            /\ sh_ops' = [sh_ops EXCEPT
                    ![i].pc = "output",
                    ![i].result = opResult(params, sh_cosineTable, sh_gfExp)]
    /\ UNCHANGED <<sh_engines, sh_gfExp>>
    /\ UNCHANGED notShVars

\* the promise of the operation resolves
OpReturn ==
    /\ \E i \in DOMAIN sh_ops :
        /\ sh_ops[i].pc = "output"
        /\ sh_ops' = [sh_ops EXCEPT ![i].pc = "returned"]
    /\ UNCHANGED <<sh_engines, sh_cosineTable, sh_gfExp>>
    /\ UNCHANGED notShVars

ShNext ==
    \/ EngineNew
    \/ OpStart
    \/ OpTransform
    \/ OpReturn

(***************************************************************************)
(* QIM on one coefficient: embedInDCT and extractFromDCT                   *)
(***************************************************************************)
\* a quarter and a third of the quantization steps of the model, in 1/FIX
CoefficientStep == 425

\* coefficient values: multiples of the step and their neighbours
Coefficients ==
    {q * CoefficientStep + r : q \in (-MaxQuanta)..MaxQuanta, r \in {-1, 0, 1}}

NoQimEmbed == [options |-> [strength |-> 0], coefficient |-> 0, bit |-> 0,
               delta |-> 0, blockSize |-> 0, newCoefficient |-> 0]

NoQimExtract == [delta |-> 0, blockSize |-> 0, bit |-> 0]

QmInit ==
    /\ qm_pc = "idle"
    /\ qm_engine = DEFAULT_OPTIONS
    /\ qm_embed = NoQimEmbed
    /\ qm_extract = NoQimExtract

\* new ImageWatermarkEngine(options)
QimEngine ==
    /\ qm_pc = "idle"
    /\ \E options \in EngineOptions :
        qm_engine' = mergeOptions(DEFAULT_OPTIONS, options)
    /\ qm_pc' = "ready"
    /\ UNCHANGED <<qm_embed, qm_extract>>
    /\ UNCHANGED notQmVars

\* embed(..., options) for one block: opts = { ...this.options, ...options },
\* embedInDCT(…, opts) with delta = opts.strength * 255 and the QIM rule
QimEmbedBlock ==
    /\ qm_pc \in {"ready", "extracted"}
    /\ \E options \in CallOptions, coefficient \in Coefficients, bit \in {0, 1} :
        \E opts \in {mergeOptions(qm_engine, options)} :
            qm_embed' = [options |-> options,
                         coefficient |-> coefficient,
                         bit |-> bit,
                         delta |-> qimDelta(opts.strength),
                         blockSize |-> opts.blockSize,
                         newCoefficient |->
                            qimEmbed(coefficient, bit, qimDelta(opts.strength))]
    /\ qm_pc' = "embedded"
    /\ UNCHANGED <<qm_engine, qm_extract>>
    /\ UNCHANGED notQmVars

\* extract(...) on the same engine for that block: extractFromDCT with
\* this.options.blockSize and delta = this.options.strength * 255
QimExtractBlock ==
    /\ qm_pc = "embedded"
    /\ qm_extract' = [delta |-> qimDelta(qm_engine.strength),
                      blockSize |-> qm_engine.blockSize,
                      bit |-> qimExtract(qm_embed.newCoefficient,
                                         qimDelta(qm_engine.strength))]
    /\ qm_pc' = "extracted"
    /\ UNCHANGED <<qm_engine, qm_embed>>
    /\ UNCHANGED notQmVars

QmNext ==
    \/ QimEngine
    \/ QimEmbedBlock
    \/ QimExtractBlock

(***************************************************************************)
(* VideoWatermarkEngine: the frame loops of embedInFrames and              *)
(* extractFromFrames.  The still engine and sharp are the environment: a   *)
(* frame is textured, flat or not an image, and a still extract yields any *)
(* of its outcomes.                                                        *)
(***************************************************************************)
\* texture scores in tenths; a frame that is no image makes sharp throw
FrameKinds == {"textured", "edge", "flat", "broken"}

textureScore(kind) == IF kind = "textured" THEN 10 ELSE IF kind = "edge" THEN 3 ELSE 0

\* textureThreshold: 0.3, in tenths
textureThreshold == 3

NoMark == [shardIndex |-> -1]

\* the frames of a video of n frames, all textured but the one at `special`
videoFrames(n, special, kind) ==
    Tup([i \in 1..n |-> [id |-> i - 1,
                          kind |-> IF i = special THEN kind ELSE "textured",
                          mark |-> NoMark]])

\* options given to new VideoWatermarkEngine, payload and special frame of
\* the calls of the model: the defaults with a frame of each kind, the
\* options of the video route and a sampled embed with a frame that is no
\* image (first frame of the sampled embed, second frame otherwise)
VideoCallKinds ==
    {[opts |-> [eccBytes |-> 12], payload |-> <<65>>, special |-> 2, kind |-> k] :
        k \in FrameKinds}
    \cup {[opts |-> [eccBytes |-> 8, skipLowTexture |-> FALSE],
           payload |-> <<65, 169, 65>>, special |-> 2, kind |-> k] :
            k \in {"textured", "broken"}}
    \cup {[opts |-> [frameSamplingRate |-> 2, skipLowTexture |-> FALSE],
           payload |-> <<65>>, special |-> 1, kind |-> k] :
            k \in {"textured", "broken"}}

VideoWorkId == "GJP-MEDIA-2026-00000012"

\* steps 1-2 of embedInFrames: the hex strings of the shards
videoShards(payload, numShards) ==
    LetIn(encode(payload, createVideoECC), LAMBDA binaryPayload :
        Tup([i \in 1..numShards |->
            LET shardSize == ceilDiv(Len(binaryPayload), numShards)
                start == (i - 1) * shardSize
                end == Min(start + shardSize, Len(binaryPayload))
            IN  bitsToHex(slice(binaryPayload, start, end))]))

\* frame ranges of equal length that leave the remainder of the frames out
shardFrameRangesEqual(totalFrames, numShards) ==
    LET framesPerShard == totalFrames \div numShards
    IN  Tup([i \in 1..numShards |->
            [start |-> (i - 1) * framesPerShard, end |-> i * framesPerShard]])

\* step 4 of embedInFrames and the loop head of extractFromFrames
shardFrameRanges(totalFrames, numShards) ==
    LET framesPerShard == totalFrames \div numShards
    IN  Tup([i \in 1..numShards |->
            [start |-> (i - 1) * framesPerShard,
             end |-> IF i = numShards THEN totalFrames ELSE i * framesPerShard]])

\* the shard of frame frameIndex: the first range that holds it, else 0
shardIndexOf(ranges, frameIndex) ==
    LET holding == {i \in DOMAIN ranges :
                        frameIndex >= ranges[i].start /\ frameIndex < ranges[i].end}
    IN  IF holding = {} THEN 0
        ELSE (CHOOSE i \in holding : \A j \in holding : i <= j) - 1

\* `${workId}-shard${shardIndex}`
shardWorkId(workId, shardIndex) == workId \o "-shard" \o decimal(shardIndex)

NoVideoEmbed == [status |-> "none"]

NoVideoExtract == [status |-> "none"]

VfInit ==
    /\ vf_pc = "idle"
    /\ vf_call = [opts |-> DEFAULT_VIDEO_OPTIONS, payload |-> <<>>, frames |-> <<>>]
    /\ vf_embed = NoVideoEmbed
    /\ vf_extract = NoVideoExtract

\* new VideoWatermarkEngine(options) and embedInFrames steps 1-4: shards and
\* frame ranges
FramesEmbedStart ==
    /\ vf_pc = "idle"
    /\ \E c \in VideoCallKinds, numShards \in ShardCounts, n \in 1..MaxVideoFrames :
        \E opts \in {patch(patch(DEFAULT_VIDEO_OPTIONS, c.opts),
                           [temporalShards |-> numShards])} :
            /\ vf_call' = [opts |-> opts, payload |-> c.payload,
                           frames |-> videoFrames(n, Min(c.special, n), c.kind)]
            /\ vf_embed' = [status |-> "running",
                            shards |-> videoShards(c.payload, numShards),
                            shardFrameRanges |-> shardFrameRanges(n, numShards),
                            watermarkedFrames |-> <<>>,
                            frameResults |-> <<>>,
                            framesProcessed |-> 0,
                            framesSkipped |-> 0]
    /\ vf_pc' = "embedding"
    /\ UNCHANGED vf_extract
    /\ UNCHANGED notVfVars

\* one frame emitted as it came, with its frameResult
frameSkipped(embed, frame, frameIndex, shardIndex) ==
    patch(embed,
          [watermarkedFrames |-> Append(embed.watermarkedFrames, frame),
           frameResults |-> Append(embed.frameResults,
                [frameIndex |-> frameIndex, shardIndex |-> shardIndex,
                 embedded |-> FALSE, skipped |-> TRUE]),
           framesSkipped |-> embed.framesSkipped + 1])

\* imageEngine.embed(frame, shardPayload, shardWorkId, payloadHash): the frame
\* carrying the bits of the payload encoded by the still engine's ECC
stillEmbed(frame, shardPayload, workId, shardIndex, eccBytes) ==
    patch(frame, [mark |-> [shardIndex |-> shardIndex,
                            workId |-> workId,
                            payload |-> shardPayload,
                            bits |-> getRequiredBits(Len(shardPayload), eccBytes)]])

\* step 5 of embedInFrames, one iteration of the frame loop; the throw of
\* calculateTextureScore is outside the try block and leaves embedInFrames
FramesEmbedFrame ==
    /\ vf_pc = "embedding"
    /\ Len(vf_embed.watermarkedFrames) < Len(vf_call.frames)
    /\ LET frameIndex == Len(vf_embed.watermarkedFrames)
           frame == vf_call.frames[frameIndex + 1]
           opts == vf_call.opts
           shardIndex == shardIndexOf(vf_embed.shardFrameRanges, frameIndex)
       IN  IF opts.frameSamplingRate > 1 /\ frameIndex % opts.frameSamplingRate # 0
           THEN /\ vf_embed' = frameSkipped(vf_embed, frame, frameIndex, shardIndex)
                /\ UNCHANGED vf_pc
           ELSE IF opts.skipLowTexture /\ frame.kind = "broken"
           THEN /\ vf_embed' = patch(vf_embed, [status |-> "threw"])
                /\ vf_pc' = "threw"
           ELSE IF opts.skipLowTexture /\ textureScore(frame.kind) < textureThreshold
           THEN /\ vf_embed' = frameSkipped(vf_embed, frame, frameIndex, shardIndex)
                /\ UNCHANGED vf_pc
           ELSE IF frame.kind = "broken"
           THEN /\ vf_embed' = frameSkipped(vf_embed, frame, frameIndex, shardIndex)
                /\ UNCHANGED vf_pc
           ELSE /\ vf_embed' = patch(vf_embed,
                    [watermarkedFrames |-> Append(vf_embed.watermarkedFrames,
                        stillEmbed(frame, vf_embed.shards[shardIndex + 1],
                                   shardWorkId(VideoWorkId, shardIndex),
                                   shardIndex, opts.eccBytes)),
                     frameResults |-> Append(vf_embed.frameResults,
                        [frameIndex |-> frameIndex, shardIndex |-> shardIndex,
                         embedded |-> TRUE, skipped |-> FALSE]),
                     framesProcessed |-> vf_embed.framesProcessed + 1])
                /\ UNCHANGED vf_pc
    /\ UNCHANGED <<vf_call, vf_extract>>
    /\ UNCHANGED notVfVars

\* the return of embedInFrames
FramesEmbedReturn ==
    /\ vf_pc = "embedding"
    /\ Len(vf_embed.watermarkedFrames) = Len(vf_call.frames)
    /\ vf_embed' = patch(vf_embed, [status |-> "returned"])
    /\ vf_pc' = "embedded"
    /\ UNCHANGED <<vf_call, vf_extract>>
    /\ UNCHANGED notVfVars

\* const sampleRate = 5
sampleRate == 5

\* the next (shardIndex, frameIndex) at which the loops of extractFromFrames
\* run their body, from the loop variables after an increment; shardIndex =
\* numShards when the loops are over
RECURSIVE nextSample(_, _, _, _)
nextSample(ranges, shardIndex, frameIndex, totalFrames) ==
    IF shardIndex >= Len(ranges) THEN [shardIndex |-> Len(ranges), frameIndex |-> 0]
    ELSE IF frameIndex < ranges[shardIndex + 1].end /\ frameIndex < totalFrames
    THEN [shardIndex |-> shardIndex, frameIndex |-> frameIndex]
    ELSE IF shardIndex + 1 >= Len(ranges)
    THEN [shardIndex |-> Len(ranges), frameIndex |-> 0]
    ELSE nextSample(ranges, shardIndex + 1, ranges[shardIndex + 2].start, totalFrames)

\* a string no shard has
StrayHex == <<"f", "f">>

\* what imageEngine.extract can yield for a frame of a shard: a throw, no
\* payload, the shard's string or a stray one, with confidence in tenths
stillExtractOutcomes(shardPayload) ==
    {[threw |-> TRUE, payload |-> Null, confidence |-> 0],
     [threw |-> FALSE, payload |-> Null, confidence |-> 0],
     [threw |-> FALSE, payload |-> shardPayload, confidence |-> 10],
     [threw |-> FALSE, payload |-> shardPayload, confidence |-> 5],
     [threw |-> FALSE, payload |-> StrayHex, confidence |-> 6]}

\* a getMostCommon that returns the last string
getMostCommonLast(items) == items[Len(items)]

\* getMostCommon: counts in order of first occurrence, the first string whose
\* count exceeds every count before it
getMostCommon(items) ==
    LET count(x) == Cardinality({i \in DOMAIN items : items[i] = x})
        first(x) == CHOOSE i \in DOMAIN items :
                        items[i] = x /\ \A j \in DOMAIN items : items[j] = x => i <= j
        best == CHOOSE i \in DOMAIN items :
                    /\ first(items[i]) = i
                    /\ \A j \in DOMAIN items :
                        \/ count(items[j]) < count(items[i])
                        \/ (count(items[j]) = count(items[i]) /\ first(items[j]) >= i)
    IN  items[best]

\* extractFromFrames on the frames that embedInFrames returned, up to the
\* first body of its loops
FramesExtractStart ==
    /\ vf_pc = "embedded"
    /\ LET numShards == vf_call.opts.temporalShards
           totalFrames == Len(vf_embed.watermarkedFrames)
           ranges == shardFrameRanges(totalFrames, numShards)
       IN  vf_extract' =
            [status |-> "running",
             expectedPayloadLength |-> Len(Utf8Encode(vf_call.payload)),
             shardFrameRanges |-> ranges,
             at |-> nextSample(ranges, 0, ranges[1].start, totalFrames),
             samples |-> <<>>,
             shardExtractions |-> Tup([i \in 1..numShards |-> <<>>]),
             framesAnalyzed |-> 0]
    /\ vf_pc' = "extracting"
    /\ UNCHANGED <<vf_call, vf_embed>>
    /\ UNCHANGED notVfVars

\* one body of the inner loop of extractFromFrames: the still extract of a
\* sampled frame
FramesExtractFrame ==
    /\ vf_pc = "extracting"
    /\ vf_extract.at.shardIndex < vf_call.opts.temporalShards
    /\ LET shardIndex == vf_extract.at.shardIndex
           frameIndex == vf_extract.at.frameIndex
           opts == vf_call.opts
           expected == ceilDiv(vf_extract.expectedPayloadLength, opts.temporalShards)
                            + opts.eccBytes
       IN  \E result \in stillExtractOutcomes(vf_embed.shards[shardIndex + 1]) :
            vf_extract' = patch(vf_extract,
                [at |-> nextSample(vf_extract.shardFrameRanges, shardIndex,
                                   frameIndex + sampleRate,
                                   Len(vf_embed.watermarkedFrames)),
                 samples |-> Append(vf_extract.samples,
                    [frameIndex |-> frameIndex,
                     shardIndex |-> shardIndex,
                     workId |-> shardWorkId(VideoWorkId, shardIndex),
                     expectedPayloadLength |-> expected,
                     eccBytes |-> opts.eccBytes,
                     bitsNeeded |-> getRequiredBits(expected, opts.eccBytes),
                     result |-> result]),
                 shardExtractions |->
                    IF ~result.threw /\ result.payload # Null /\ result.payload # <<>>
                        /\ result.confidence > 5
                    THEN [vf_extract.shardExtractions EXCEPT ![shardIndex + 1] =
                            Append(@, result.payload)]
                    ELSE vf_extract.shardExtractions,
                 framesAnalyzed |-> vf_extract.framesAnalyzed + 1])
    /\ UNCHANGED <<vf_pc, vf_call, vf_embed>>
    /\ UNCHANGED notVfVars

\* the shards with a candidate, each with its most common string
recoveredShards(shardExtractions) ==
    LET kept == {i \in DOMAIN shardExtractions : shardExtractions[i] # <<>>}
        RECURSIVE from(_)
        from(i) == IF i > Len(shardExtractions) THEN <<>>
                   ELSE IF i \in kept
                   THEN <<getMostCommon(shardExtractions[i])>> \o from(i + 1)
                   ELSE from(i + 1)
    IN  from(1)

\* extractFromFrames after the loops: the vote, and the RS decode when every
\* shard was recovered
FramesExtractFinish ==
    /\ vf_pc = "extracting"
    /\ vf_extract.at.shardIndex >= vf_call.opts.temporalShards
    /\ LET numShards == vf_call.opts.temporalShards
           recovered == recoveredShards(vf_extract.shardExtractions)
       IN  IF Len(recovered) < numShards
           THEN vf_extract' = patch(vf_extract,
                    [status |-> "returned", recoveredShards |-> recovered,
                     decoded |-> FALSE, payload |-> Null,
                     confidence |-> [num |-> Len(recovered), den |-> numShards],
                     shardsRecovered |-> Len(recovered), totalShards |-> numShards])
           ELSE \E decoded \in {decode(hexToBits(Flatten(recovered)), createVideoECC)} :
                vf_extract' = patch(vf_extract,
                    [status |-> "returned", recoveredShards |-> recovered,
                     decoded |-> TRUE,
                     payload |-> IF ~decoded.threw /\ decoded.payload # Null
                                        /\ decoded.payload # <<>>
                                 THEN decoded.payload ELSE Null,
                     confidence |->
                        IF ~decoded.threw /\ decoded.payload # Null
                            /\ decoded.payload # <<>>
                        THEN [num |-> vf_call.opts.eccBytes * 2 - decoded.errorsFound,
                              den |-> vf_call.opts.eccBytes * 2]
                        ELSE [num |-> 0, den |-> 1],
                     shardsRecovered |-> Len(recovered), totalShards |-> numShards])
    /\ vf_pc' = "extracted"
    /\ UNCHANGED <<vf_call, vf_embed>>
    /\ UNCHANGED notVfVars

VfNext ==
    \/ FramesEmbedStart
    \/ FramesEmbedFrame
    \/ FramesEmbedReturn
    \/ FramesExtractStart
    \/ FramesExtractFrame
    \/ FramesExtractFinish

(***************************************************************************)
(* Storage clean-up: deleteWithCleanup, cleanupStorageOnly,                *)
(* cleanupOldArtworks on the artworks table and the file storage           *)
(***************************************************************************)
CleanupUsers == {"user_asha", "user_ben"}

DayMs == 24 * 60 * 60 * 1000

\* a document without the given fields (ctx.db.patch with the value undefined)
without(doc, fields) == [k \in DOMAIN doc \ fields |-> doc[k]]

\* the storage files that a document references
fileRefs(doc) ==
    {doc[k] : k \in DOMAIN doc \cap {"originalFileId", "watermarkedFileId"}}

\* the storage ids of the files of the request that creates document id
originalFileOf(id) == 2 * id - 1
watermarkedFileOf(id) == 2 * id

ClInit ==
    /\ cl_artworks = <<>>
    /\ cl_storage = {}
    /\ cl_now = 0
    /\ cl_next = 1

\* a day passes
CleanupTick ==
    /\ cl_now < MaxDays * DayMs
    /\ cl_now' = cl_now + DayMs
    /\ UNCHANGED <<cl_artworks, cl_storage, cl_next>>
    /\ UNCHANGED notClVars

\* a watermark request stores its original file and creates its document;
\* the two users are interchangeable, the first document is user_asha's
StoreOriginal ==
    /\ cl_next <= MaxDocuments
    /\ \E userId \in (IF cl_next = 1 THEN {"user_asha"} ELSE CleanupUsers) :
        cl_artworks' =
            [id \in DOMAIN cl_artworks \cup {cl_next} |->
                IF id \in DOMAIN cl_artworks THEN cl_artworks[id]
                ELSE [userId |-> userId,
                      workId |-> <<"GJP-MEDIA-2025-", id>>,
                      originalFileId |-> originalFileOf(id),
                      originalHash |-> <<"sha256", originalFileOf(id)>>,
                      payloadHash |-> <<"payloadHash", id>>,
                      watermarkPayload |-> <<"payload", id>>,
                      embeddingParams |-> [strength |-> 0, eccBytes |-> 0,
                                           coefficientSeed |-> "", blockSize |-> 8],
                      qualityMetrics |-> [psnr |-> 0, ssim |-> 0,
                                          perceptuallyIndistinguishable |-> FALSE],
                      status |-> "pending",
                      uploadedAt |-> cl_now]]
    /\ cl_storage' = cl_storage \cup {originalFileOf(cl_next)}
    /\ cl_next' = cl_next + 1
    /\ UNCHANGED cl_now
    /\ UNCHANGED notClVars

\* the request stores the watermarked file and completes its document
\* (updateWithWatermark, updateWithSignature, updateWithBlockchain)
StoreWatermarked ==
    /\ \E id \in DOMAIN cl_artworks :
        /\ cl_artworks[id].status = "pending"
        /\ "watermarkedFileId" \notin DOMAIN cl_artworks[id]
        /\ cl_artworks' = [cl_artworks EXCEPT ![id] =
                patch(cl_artworks[id],
                      [watermarkedFileId |-> watermarkedFileOf(id),
                       embeddingParams |-> [strength |-> 15, eccBytes |-> 8,
                                            coefficientSeed |-> <<"seed", id>>,
                                            blockSize |-> 8],
                       qualityMetrics |-> [psnr |-> 45, ssim |-> 99,
                                           perceptuallyIndistinguishable |-> TRUE],
                       evidenceSignature |-> <<"signature", id>>,
                       signatureAlgorithm |-> "secp256k1",
                       signaturePublicKey |-> "publicKey",
                       blockchainTxHash |-> <<"0x", id>>,
                       blockchainNetwork |-> "polygon-amoy",
                       status |-> "completed"])]
        /\ cl_storage' = cl_storage \cup {watermarkedFileOf(id)}
    /\ UNCHANGED <<cl_now, cl_next>>
    /\ UNCHANGED notClVars

\* the result of a mutation: the table and the storage after it, the files
\* it deleted; a mutation that throws changes nothing
notFound(table, storage) ==
    [threw |-> TRUE, artworks |-> table, storage |-> storage, deleted |-> {}]

deleteWithCleanup(table, storage, id, deleteOriginal, deleteWatermarked) ==
    IF id \notin DOMAIN table THEN notFound(table, storage)
    ELSE LET artwork == table[id]
             deleted ==
                (IF deleteOriginal /\ "originalFileId" \in DOMAIN artwork
                 THEN {artwork.originalFileId} ELSE {})
                \cup
                (IF deleteWatermarked /\ "watermarkedFileId" \in DOMAIN artwork
                 THEN {artwork.watermarkedFileId} ELSE {})
         IN  [threw |-> FALSE,
              artworks |-> [k \in DOMAIN table \ {id} |-> table[k]],
              storage |-> storage \ deleted,
              deleted |-> deleted]

\* the patch of cleanupStorageOnly that leaves the reference to the
\* watermarked file in the document
cleanedUpKeepsReference(artwork, keepOriginal) ==
    patch(without(artwork,
                  IF keepOriginal THEN {} ELSE {"originalFileId"}),
          [processingError |->
                IF "processingError" \in DOMAIN artwork /\ artwork.processingError # ""
                THEN artwork.processingError ELSE "FILES_CLEANED_UP"])

\* the document after the patch of cleanupStorageOnly
cleanedUp(artwork, keepOriginal) ==
    patch(without(artwork,
                  IF keepOriginal THEN {"watermarkedFileId"}
                  ELSE {"originalFileId", "watermarkedFileId"}),
          [processingError |->
                IF "processingError" \in DOMAIN artwork /\ artwork.processingError # ""
                THEN artwork.processingError ELSE "FILES_CLEANED_UP"])

cleanupStorageOnly(table, storage, id, keepOriginal) ==
    IF id \notin DOMAIN table THEN notFound(table, storage)
    ELSE LET artwork == table[id]
             deleted ==
                (IF ~keepOriginal /\ "originalFileId" \in DOMAIN artwork
                 THEN {artwork.originalFileId} ELSE {})
                \cup
                (IF "watermarkedFileId" \in DOMAIN artwork
                 THEN {artwork.watermarkedFileId} ELSE {})
         IN  [threw |-> FALSE,
              artworks |-> [k \in DOMAIN table |->
                                IF k = id THEN cleanedUp(artwork, keepOriginal)
                                ELSE table[k]],
              storage |-> storage \ deleted,
              deleted |-> deleted]

cleanupOldArtworks(table, storage, now, userId, olderThanDays, keepEvidence) ==
    LET cutoffTime == now - olderThanDays * DayMs
        oldArtworks == {k \in DOMAIN table :
                            /\ table[k].userId = userId
                            /\ table[k].uploadedAt < cutoffTime}
        deleted == UNION {fileRefs(table[k]) : k \in oldArtworks}
    IN  [threw |-> FALSE,
         artworks |->
            IF keepEvidence
            THEN [k \in DOMAIN table |->
                    IF k \in oldArtworks
                    THEN without(table[k], {"originalFileId", "watermarkedFileId"})
                    ELSE table[k]]
            ELSE [k \in DOMAIN table \ oldArtworks |-> table[k]],
         storage |-> storage \ deleted,
         deleted |-> deleted,
         cleaned |-> Cardinality(oldArtworks)]

\* the mutation runs as one transaction
applyMutation(r) ==
    /\ cl_artworks' = r.artworks
    /\ cl_storage' = r.storage
    /\ UNCHANGED <<cl_now, cl_next>>
    /\ UNCHANGED notClVars

DeleteWithCleanup ==
    \E id \in 1..MaxDocuments, deleteOriginal \in BOOLEAN, deleteWatermarked \in BOOLEAN :
        applyMutation(deleteWithCleanup(cl_artworks, cl_storage, id,
                                        deleteOriginal, deleteWatermarked))

CleanupStorageOnly ==
    \E id \in 1..MaxDocuments, keepOriginal \in BOOLEAN :
        applyMutation(cleanupStorageOnly(cl_artworks, cl_storage, id, keepOriginal))

CleanupOldArtworks ==
    \E userId \in CleanupUsers, olderThanDays \in {0, 1}, keepEvidence \in BOOLEAN :
        applyMutation(cleanupOldArtworks(cl_artworks, cl_storage, cl_now, userId,
                                         olderThanDays, keepEvidence))

ClNext ==
    \/ CleanupTick
    \/ StoreOriginal
    \/ StoreWatermarked
    \/ DeleteWithCleanup
    \/ CleanupStorageOnly
    \/ CleanupOldArtworks

vars == <<rsVars, imVars, vdVars, sgVars, rqVars, hpVars, dtVars, vrVars, wiVars, shVars, qmVars, vfVars, clVars>>

Init == RsInit /\ ImInit /\ VdInit /\ SgInit /\ RqInit /\ HpInit /\ DtInit /\ VrInit /\ WiInit /\ ShInit /\ QmInit /\ VfInit /\ ClInit

SpecRS == Init /\ [][RsNext]_vars

SpecImg == Init /\ [][ImNext]_vars

SpecVideo == Init /\ [][VdNext]_vars

SpecSign == Init /\ [][SgNext]_vars

SpecReq == Init /\ [][RqNext]_vars

\* every await of POST that can resume does resume
SpecReqLive == SpecReq /\ WF_vars(RqNext)

SpecHopper == Init /\ [][HpNext]_vars

SpecDetect == Init /\ [][DtNext]_vars

SpecEmbedRequests == Init /\ [][EmbedRequestsNext]_vars

SpecWorkIds == Init /\ [][WiNext]_vars

SpecShared == Init /\ [][ShNext]_vars

SpecQim == Init /\ [][QmNext]_vars

SpecFrames == Init /\ [][VfNext]_vars

SpecCleanup == Init /\ [][ClNext]_vars

(***************************************************************************)
(* Properties of the Reed-Solomon codec                                    *)
(***************************************************************************)
rsDecoded == rs_pc \in {"decodedClean", "decodedHit", "decodedStray"}

\* C3: after a corruption of 1..floor(eccBytes/2) bytes of an encoded
\* codeword, decode returns the original payload and reports
\* errorsCorrected = errorsFound = number of corrupted bytes.
C3_CorrectsUpToHalfEcc ==
    (rs_pc = "decodedHit" /\ Cardinality(rs_hits) >= 1
        /\ Cardinality(rs_hits) <= rs_ecc \div 2)
    => /\ rs_result.payload = rs_payload
       /\ rs_result.errorsFound = Cardinality(rs_hits)
       /\ rs_result.errorsCorrected = Cardinality(rs_hits)

\* C4: encode(p) has (byteLength(p) + eccBytes) * 8 bits, every byte most
\* significant bit first, the message bytes in front, all syndromes zero; and
\* decode of that array returns p with errorsFound = 0, errorsCorrected = 0,
\* corrupted = false.
C4_CleanRoundTrip ==
    /\ rs_pc \in {"encoded", "received", "decodedClean", "decodedHit"} =>
        LET msg == Utf8Encode(rs_payload)
        IN  /\ Len(rs_sent) = (Len(msg) + rs_ecc) * 8
            /\ \A b \in 1..Len(msg) :
                   msg[b] = 128 * rs_sent[8 * b - 7] + 64 * rs_sent[8 * b - 6]
                          + 32 * rs_sent[8 * b - 5] + 16 * rs_sent[8 * b - 4]
                          + 8 * rs_sent[8 * b - 3] + 4 * rs_sent[8 * b - 2]
                          + 2 * rs_sent[8 * b - 1] + rs_sent[8 * b]
            /\ AllZero(calcSyndromes(BitsToBytes(rs_sent), rs_ecc))
    /\ rs_pc = "decodedClean" =>
        rs_result = [threw |-> FALSE, payload |-> rs_payload, errorsFound |-> 0,
                     errorsCorrected |-> 0, corrupted |-> FALSE]

\* a two-character payload with a two-byte character went through
\* encode and decode with eccBytes = 8
C4_Witness ==
    /\ rs_pc = "decodedClean"
    /\ rs_ecc = 8
    /\ rs_payload = <<169, 65>>
    /\ Len(rs_sent) = 88

\* C5: decode returns normally for every received bit array, and when it
\* returns no payload it reports payload = null, errorsFound = -1,
\* errorsCorrected = 0.
C5_DecodeNeverThrows ==
    rsDecoded =>
        /\ ~rs_result.threw
        /\ rs_result.payload = Null =>
              rs_result.errorsFound = -1 /\ rs_result.errorsCorrected = 0

-----------------------------------------------------------------------------
\* Still-engine properties

embedReturned == im_embed.status = "returned"

\* C1: whenever embed succeeds and its output is delivered losslessly (PNG),
\* extract with the same workId, payloadHash, payload byte length and ecc
\* returns exactly the embedded payload with errorsFound = 0 and
\* confidence = 1.0.  Stated here for non-empty payloads only.
C1_CleanRoundTrip ==
    (im_pc = "extracted" /\ embedReturned /\ im_call.payload # <<>>) =>
        /\ ex_result.status = "returned"
        /\ ex_result.payload = im_call.payload
        /\ ex_result.errorsFound = 0
        /\ ex_result.confidence = [num |-> 1, den |-> 1]

\* bits that embed must place, and complete blocks of the luminance plane,
\* computed from the call alone
c2RequiredBits == (Len(Utf8Encode(im_call.payload)) + embedOpts.eccBytes) * 8

c2CompleteBlocks ==
    (im_call.image.width \div embedOpts.blockSize)
        * (im_call.image.height \div embedOpts.blockSize)

\* C2: on a readable image embed fails with the capacity error exactly when
\* (UTF-8 byte length of payload + eccBytes) * 8 exceeds
\* floor(width/blockSize) * floor(height/blockSize); every embed that returns
\* has bitsEmbedded <= complete blocks; a failed embed produces no buffer.
C2_CapacityCheck ==
    /\ (im_pc = "failed" /\ im_call.image.readable) =>
            /\ im_embed.status = "threw"
            /\ (im_embed.error = "Payload too large")
                    <=> (c2RequiredBits > c2CompleteBlocks)
    /\ im_pc \in {"blocks", "encoded", "returned", "extracting", "extracted"} =>
            c2RequiredBits <= c2CompleteBlocks
    /\ embedReturned =>
            /\ im_embed.embeddingParams.bitsEmbedded = c2RequiredBits
            /\ im_embed.embeddingParams.bitsEmbedded <= c2CompleteBlocks
    /\ im_embed.status = "threw" => "watermarkedBuffer" \notin DOMAIN im_embed

\* a 47x39 image has 5 * 4 complete blocks; "A" with 2 parity bytes needs 24
C2_Witness ==
    /\ im_pc = "failed"
    /\ im_embed.status = "threw"
    /\ im_embed.error = "Payload too large"
    /\ im_call.image.width = 47
    /\ im_call.image.height = 39
    /\ c2RequiredBits = 24

-----------------------------------------------------------------------------
\* Video shard reassembly

\* C6: if every shard is recovered as exactly the hex string built for it,
\* then joining the strings, hexToBits and RS decoding give back the original
\* payload with errorsFound = 0, for every shard count and bit-string length.
C6_ShardReassembly ==
    vd_pc = "extracted" =>
        /\ ~vd_decoded.threw
        /\ vd_decoded.payload = vd_call.payload
        /\ vd_decoded.errorsFound = 0

-----------------------------------------------------------------------------
\* Evidence signatures

\* the verifier was given exactly what was signed, the signature that
\* signEvidence returned and the signer's public key
presentedAsSigned ==
    /\ sg_presented.mediaHash = sg_signed.mediaHash
    /\ sg_presented.payloadHash = sg_signed.payloadHash
    /\ sg_presented.timestamp = sg_signed.timestamp
    /\ sg_presented.signature = sg_signed.signature
    /\ sg_presented.publicKey = sg_signer.publicKey

\* C7: verifyEvidence returns true for the signed (mediaHash, payloadHash,
\* timestamp), the signature of signEvidence and the signer's public key, and
\* returns false when any message component, the signature or the public key
\* differs.
C7_VerifyIffUnchanged ==
    sg_pc = "verified" =>
        /\ sg_result \in BOOLEAN
        /\ sg_result = presentedAsSigned

-----------------------------------------------------------------------------
\* Evidence records of the watermark requests

artworkIds == 1..Len(db_artworks)

\* C8: every record that carries an evidenceSignature also carries the
\* timestampMillis that was signed, and the signature verifies against the
\* record's own originalHash, payloadHash, timestampMillis and public key.
C8_SignedRecordVerifies ==
    \A id \in artworkIds :
        "evidenceSignature" \in DOMAIN db_artworks[id] =>
            /\ "timestampMillis" \in DOMAIN db_artworks[id]
            /\ verifyEvidence(db_artworks[id].originalHash,
                              db_artworks[id].payloadHash,
                              db_artworks[id].timestampMillis,
                              db_artworks[id].evidenceSignature,
                              db_artworks[id].signaturePublicKey)

\* the canonical payload rebuilt from a record, its owner's profile and the
\* record's creation instant
rebuiltCanonicalPayload(doc) ==
    canonicalPayloadAt(CHOOSE u \in Users : u.id = doc.userId, doc.workId,
                       doc.mediaType, doc.aspectRatio, doc.createdUtc)

\* C9: SHA-256 over the canonical payload held in, or rebuilt from, the
\* evidence record (with its creation instant) reproduces the record's
\* payloadHash.
C9_PayloadHashReproducible ==
    \A id \in artworkIds :
        hashPayload(IF "canonicalPayload" \in DOMAIN db_artworks[id]
                    THEN db_artworks[id].canonicalPayload
                    ELSE rebuiltCanonicalPayload(db_artworks[id]))
            = db_artworks[id].payloadHash

\* C10: a request whose embed failed leaves no artwork record and no stored
\* file behind; a request that answers with success has emitted both the
\* watermarked file and its record.
C10_EmbeddingAtomic ==
    /\ ("embed" \in DOMAIN rq_local /\ rq_local.embed = "threw") =>
            /\ db_artworks = <<>>
            /\ db_storage = <<>>
    /\ (rq_pc = "responded" /\ rq_response.status = 200) =>
            /\ \E id \in artworkIds :
                /\ db_artworks[id].workId = rq_local.workId
                /\ "watermarkedFileId" \in DOMAIN db_artworks[id]
                /\ db_artworks[id].watermarkedFileId \in 1..Len(db_storage)

-----------------------------------------------------------------------------
\* Signing and notarization inside the watermark request

signatureFields == {"evidenceSignature", "signatureAlgorithm", "signaturePublicKey"}

anchorFields ==
    {"blockchainTxHash", "blockchainNetwork", "blockNumber", "blockchainTimestamp"}

\* C11: whether signing was skipped or notarization failed, a request that
\* got past both ends with a 'completed' record whose signature fields are
\* all present exactly when signing succeeded and all absent otherwise, whose
\* anchor fields are all present exactly when notarization succeeded and all
\* absent otherwise, and answers with success, the watermarked file
\* reference and the quality metrics.
C11_FailuresIsolated ==
    (rq_pc \in {"notarized", "responded"} /\ "blockchainResult" \in DOMAIN rq_local) =>
        /\ db_artworks[rq_local.artworkId].status = "completed"
        /\ IF "evidenceSignature" \in DOMAIN rq_local
           THEN /\ signatureFields \subseteq DOMAIN db_artworks[rq_local.artworkId]
                /\ db_artworks[rq_local.artworkId].evidenceSignature
                        = rq_local.evidenceSignature
                /\ db_artworks[rq_local.artworkId].signaturePublicKey
                        = rq_local.signaturePublicKey
           ELSE signatureFields \cap DOMAIN db_artworks[rq_local.artworkId] = {}
        /\ IF rq_local.blockchainResult # NoBlockchainResult
           THEN /\ anchorFields \subseteq DOMAIN db_artworks[rq_local.artworkId]
                /\ db_artworks[rq_local.artworkId].blockchainTxHash
                        = rq_local.blockchainResult.txHash
           ELSE anchorFields \cap DOMAIN db_artworks[rq_local.artworkId] = {}
        /\ rq_pc = "responded" =>
                /\ rq_response.status = 200
                /\ rq_response.success
                /\ rq_response.downloadUrl
                        = db_artworks[rq_local.artworkId].watermarkedFileId
                /\ rq_response.downloadUrl \in 1..Len(db_storage)
                /\ rq_response.qualityMetrics.psnr
                        = db_artworks[rq_local.artworkId].qualityMetrics.psnr
                /\ rq_response.qualityMetrics.ssim
                        = db_artworks[rq_local.artworkId].qualityMetrics.ssim

\* a request answered after signing was skipped and notarization succeeded
C11_Witness ==
    /\ rq_pc = "responded"
    /\ "blockchainResult" \in DOMAIN rq_local
    /\ rq_local.blockchainResult # NoBlockchainResult
    /\ "evidenceSignature" \notin DOMAIN rq_local
    /\ "blockchainTxHash" \in DOMAIN db_artworks[rq_local.artworkId]

\* C12: once the watermarked file is embedded and stored, the request
\* eventually returns its result, whatever the notarization call does.
C12_NotaryNeverBlocks ==
    (rq_pc = "wmUploaded") ~> (rq_pc = "responded")

-----------------------------------------------------------------------------
\* Coefficient hopper

sameKey(h1, h2) ==
    /\ hp_hoppers[h1].workId = hp_hoppers[h2].workId
    /\ hp_hoppers[h1].payloadHash = hp_hoppers[h2].payloadHash

\* C13: hoppers built from equal (workId, payloadHash) return equal
\* coordinates for every block index, whenever they were built and whatever
\* was built or queried in between; the coordinates are those of the
\* schedule computed from (workId, payloadHash) alone.
C13_HopperPurity ==
    /\ \A h1, h2 \in 1..Len(hp_hoppers) :
        sameKey(h1, h2) =>
            \A i \in HopperBlockIndexes :
                getPosition(hp_hoppers[h1].positions, i)
                    = getPosition(hp_hoppers[h2].positions, i)
    /\ hp_query # NoQuery =>
        /\ \A h \in 1..Len(hp_hoppers) :
            sameKey(h, hp_query.hopper) =>
                getPosition(hp_hoppers[h].positions, hp_query.blockIndex)
                    = hp_query.position
        /\ hp_query.position
            = getPosition(CoefficientHopper(hp_hoppers[hp_query.hopper].workId,
                                            hp_hoppers[hp_query.hopper].payloadHash),
                          hp_query.blockIndex)

\* two hoppers of one key with a hopper of another key built between them,
\* and a query beyond the first pass over the 13 positions
C13_Witness ==
    /\ Len(hp_hoppers) = 3
    /\ sameKey(1, 3)
    /\ ~sameKey(1, 2)
    /\ hp_query # NoQuery
    /\ hp_query.hopper = 3
    /\ hp_query.blockIndex >= Len(MID_FREQUENCY_POSITIONS)

-----------------------------------------------------------------------------
\* Detection

\* positions of the scanned artworks that have a stored pHash and dHash
scannedWithHashes ==
    {i \in 1..Len(dt_local.recentArtworks) :
        /\ dt_local.recentArtworks[i].perceptualHash # <<>>
        /\ dt_local.recentArtworks[i].differenceHash # <<>>}

\* 0.3 * pHash + 0.2 * aHash + 0.5 * dHash of a scanned artwork against the
\* uploaded image, in exact arithmetic and units of 1/640
combinedSimilarity(i) ==
    3 * hashSimilarity(dt_local.uploadedHashes.pHash,
                       dt_local.recentArtworks[i].perceptualHash).num
    + 2 * hashSimilarity(dt_local.uploadedHashes.aHash,
                         dt_local.recentArtworks[i].averageHash).num
    + 5 * hashSimilarity(dt_local.uploadedHashes.dHash,
                         dt_local.recentArtworks[i].differenceHash).num

logsOfRequest(requestId) ==
    {k \in 1..Len(dt_logs) : dt_logs[k].requestId = requestId}

detectCompleted == dt_pc = "responded" /\ dt_response.status = 200

\* C14: a completed detect request reports found exactly when some scanned
\* artwork with a stored pHash and dHash has combined similarity >= 0.85
\* (544/640); the artwork it reports has maximal combined similarity among
\* them; and the request has written exactly one log entry, whose detected
\* flag equals found.
C14_DetectionMatchRule ==
    /\ \A r \in 1..MaxDetects : Cardinality(logsOfRequest(r)) <= 1
    /\ detectCompleted =>
        /\ dt_response.found <=>
                \E i \in scannedWithHashes : combinedSimilarity(i) >= 544
        /\ dt_response.found =>
                \E i \in scannedWithHashes :
                    /\ dt_local.recentArtworks[i].workId = dt_response.artwork.workId
                    /\ \A j \in scannedWithHashes :
                            combinedSimilarity(j) <= combinedSimilarity(i)
        /\ Cardinality(logsOfRequest(dt_local.requestId)) = 1
        /\ \A k \in logsOfRequest(dt_local.requestId) :
                dt_logs[k].detected = dt_response.found

\* a match reported for the second of two scanned artworks, both with hashes
C14_Witness ==
    /\ detectCompleted
    /\ dt_response.found
    /\ scannedWithHashes = {1, 2}
    /\ dt_local.bestMatch.artwork = 2
    /\ combinedSimilarity(1) >= 544

\* the acceptance ladder on a similarity in units of 1/640
acceptanceLevel(s) ==
    IF s >= 608 THEN "EXCELLENT"
    ELSE IF s >= 576 THEN "GOOD"
    ELSE IF s >= 544 THEN "FAIR"
    ELSE IF s >= 480 THEN "MARGINAL"
    ELSE "NONE"

\* the combined similarity that a detect request found and recorded
recordedSimilarity ==
    IF "bestMatch" \in DOMAIN dt_local /\ dt_local.bestMatch # NoBestMatch
    THEN combinedSimilarity(dt_local.bestMatch.artwork)
    ELSE 0

\* C15: the confidence level in the log entry and in the response of a
\* completed detect request is the one the acceptance ladder gives for the
\* combined similarity, for matches and non-matches alike.
C15_AcceptanceLadder ==
    detectCompleted =>
        /\ \A k \in logsOfRequest(dt_local.requestId) :
                dt_logs[k].confidenceLevel = acceptanceLevel(recordedSimilarity)
        /\ dt_response.found =>
                dt_response.forensicData.confidenceLevel
                    = acceptanceLevel(recordedSimilarity)

\* the records that updateWithWatermark has patched after an embed
updatedAfterEmbed(table) ==
    {i \in DOMAIN table : "watermarkedFileId" \in DOMAIN table[i]}

\* the four recorded parameters of a record
recordedParams(doc) ==
    [strength |-> doc.embeddingParams.strength,
     eccBytes |-> doc.embeddingParams.eccBytes,
     blockSize |-> doc.embeddingParams.blockSize,
     coefficientSeed |-> doc.embeddingParams.coefficientSeed]

\* C16: every artwork record updated after an embed, image or video, stores
\* the parameters the embed used: its strength, the eccBytes of the ECC that
\* encoded the payload, its blockSize and coefficientSeed =
\* "<workId>:<payloadHash>", in every later state of the record.
C16_ParamsRecordedVerbatim ==
    /\ \A i \in updatedAfterEmbed(db_artworks) :
            recordedParams(db_artworks[i]) =
                [strength |-> DEFAULT_OPTIONS.strength,
                 eccBytes |-> DEFAULT_OPTIONS.eccBytes,
                 blockSize |-> DEFAULT_OPTIONS.blockSize,
                 coefficientSeed |->
                    db_artworks[i].workId \o ":" \o db_artworks[i].payloadHash]
    /\ \A i \in updatedAfterEmbed(vr_artworks) :
            recordedParams(vr_artworks[i]) =
                [strength |-> vr_local.opts.strength,
                 eccBytes |-> vr_local.eccEngine.eccBytes,
                 blockSize |-> vr_local.opts.blockSize,
                 coefficientSeed |->
                    vr_artworks[i].workId \o ":" \o vr_artworks[i].payloadHash]

\* C17: for any interleaving of watermark requests, image or video, no two
\* artwork records carry the same workId.
C17_WorkIdUnique ==
    \A i \in DOMAIN wi_artworks :
        getByWorkId(wi_artworks, wi_artworks[i].workId) = {i}

\* the result of an operation that runs alone on a fresh process: tables
\* empty, gfExp as loaded, the engine as constructed
aloneResult(op) ==
    opResult(opParams(op, sh_engines), {}, Tup([i \in 1..512 |-> gfExp(i - 1)]))

\* C18: interleaved embed and extract calls, on the same or on different
\* engines and with different per-call options, return what they return
\* when run alone; every entry of the cosine table is the cosine of its key
\* and the GF table is as loaded.
C18_NoSharedMutableState ==
    /\ \A i \in DOMAIN sh_ops :
            sh_ops[i].pc \in {"output", "returned"}
                => sh_ops[i].result = aloneResult(sh_ops[i])
    /\ \A e \in sh_cosineTable :
            \E p \in CosinePairs, N \in {8, 16} :
                /\ e.key = cosineKey(p[1], p[2], N)
                /\ e.value = MathCos(p[1], p[2], N)
    /\ sh_gfExp = Tup([i \in 1..512 |-> gfExp(i - 1)])

\* two operations with different block sizes, one on each side of the other's
\* suspension, have both returned
C18_Witness ==
    \E i, j \in DOMAIN sh_ops :
        /\ i # j
        /\ sh_ops[i].pc = "returned"
        /\ sh_ops[j].pc = "returned"
        /\ sh_ops[i].result.blockSize # sh_ops[j].result.blockSize
        /\ sh_ops[i].kind # sh_ops[j].kind

\* k = round(D / Delta) of the embedded block and of its new coefficient
qimIndexBefore == MathRound(qm_embed.coefficient, qm_embed.delta)

qimIndexAfter == MathRound(qm_embed.newCoefficient, qm_embed.delta)

\* C19: for the coefficient D, the step Delta > 0 and the bit b of an embed,
\* the new coefficient is sign(k) * |k'| * Delta with |k'| = |k| when
\* |k| mod 2 = b and |k| + 1 otherwise (sign(0) = +1); the extraction rule
\* |round(D'/Delta)| mod 2 on it gives b, |k| does not decrease and the sign
\* of k is not flipped.
C19_QimParityRule ==
    qm_pc \in {"embedded", "extracted"} =>
        /\ qm_embed.delta > 0
        /\ qimExtract(qm_embed.newCoefficient, qm_embed.delta) = qm_embed.bit
        /\ qm_embed.newCoefficient = qimIndexAfter * qm_embed.delta
        /\ Abs(qimIndexAfter) =
                IF Abs(qimIndexBefore) % 2 = qm_embed.bit
                THEN Abs(qimIndexBefore) ELSE Abs(qimIndexBefore) + 1
        /\ (qimIndexBefore >= 0) = (qimIndexAfter >= 0)
        /\ (qimIndexBefore < 0 => qimIndexAfter < 0)

\* a negative index whose parity was wrong: the magnitude grew by one
C19_Witness ==
    /\ qm_pc = "embedded"
    /\ qimIndexBefore < 0
    /\ qimIndexAfter = qimIndexBefore - 1
    /\ qm_embed.bit = 1

\* C20: extract decodes a block with the quantization step Delta and the
\* block size that the embed of the block used, whether they came from the
\* constructor options or from the options argument of embed.
C20_ExtractUsesEmbedParams ==
    qm_pc = "extracted" =>
        /\ qm_extract.delta = qm_embed.delta
        /\ qm_extract.blockSize = qm_embed.blockSize

\* the block (numbered in row-major order over the complete blocks) that holds
\* the luminance sample p of an image of the given width, or -1 for a sample
\* of the partial strips at the right and bottom edges
blockOfSample(p, width, bc) ==
    LET px == (p - 1) % width
        py == (p - 1) \div width
    IN  IF px \div 8 < bc.numBlocksX /\ py \div 8 < bc.numBlocksY
        THEN (py \div 8) * bc.numBlocksX + (px \div 8)
        ELSE -1

embedBlockCount ==
    getBlockCount(im_call.image.width, im_call.image.height, embedOpts.blockSize)

\* C21: after b iterations embedInDCT has changed samples of the first b
\* complete blocks only (row-major, block i carrying bit i at the hopper's
\* position i): the later blocks and the partial strips at the right and
\* bottom edges hold the original luminance; all B bits get a block; and
\* extraction walks the same blocks with the same positions.
C21_BlockScheduleAndFrame ==
    /\ im_pc \in {"blocks", "encoded", "returned", "extracting", "extracted"} =>
        /\ Len(im_res) = Len(im_lum)
        /\ im_bitIndex <= Len(im_binary)
        /\ im_bitIndex <= embedBlockCount.totalBlocks
        /\ \A p \in 1..Len(im_res) :
                LET b == blockOfSample(p, im_call.image.width, embedBlockCount)
                IN  ~(b >= 0 /\ b < im_bitIndex) => im_res[p] = im_lum[p]
    /\ im_pc \in {"encoded", "returned", "extracting", "extracted"} =>
        im_bitIndex = Len(im_binary)
    /\ im_pc \in {"extracting", "extracted"} =>
        /\ ex_positions = im_positions
        /\ extractBlockCount = embedBlockCount
        /\ Len(ex_bits) <= im_bitIndex
        /\ \A i \in 1..Len(ex_bits) :
                ex_coeffs[i] = extractCoefficient(ex_lum, im_call.image.width,
                                                  embedBlockCount.numBlocksX,
                                                  im_positions, i - 1)

\* an image with partial strips whose embed has changed samples and returned
C21_Witness ==
    /\ im_pc = "returned"
    /\ im_call.image.width % 8 # 0
    /\ im_call.image.height % 8 # 0
    /\ im_bitIndex < embedBlockCount.totalBlocks
    /\ im_res # im_lum

\* the frames of shard s in which embedInFrames embedded
embeddedFramesOfShard(s) ==
    {i \in DOMAIN vf_embed.watermarkedFrames :
        vf_embed.watermarkedFrames[i].mark # NoMark
            /\ vf_embed.watermarkedFrames[i].mark.shardIndex = s}

\* C22: the number of bits that extractFromFrames, given the payload's byte
\* length, asks the still engine to read from a frame of shard s is the
\* number of bits embedded in the frames of shard s: (byte length of the
\* shard's hex string + eccBytes) * 8.
C22_FrameLengthAgreement ==
    vf_pc \in {"extracting", "extracted"} =>
        \A k \in DOMAIN vf_extract.samples :
            LET sample == vf_extract.samples[k]
            IN  /\ sample.bitsNeeded =
                        (Len(vf_embed.shards[sample.shardIndex + 1])
                            + vf_call.opts.eccBytes) * 8
                /\ \A i \in embeddedFramesOfShard(sample.shardIndex) :
                        sample.bitsNeeded = vf_embed.watermarkedFrames[i].mark.bits

\* the intervals are contiguous, ordered and cover [0, n)
partitions(ranges, n) ==
    /\ ranges[1].start = 0
    /\ ranges[Len(ranges)].end = n
    /\ \A i \in DOMAIN ranges : ranges[i].start <= ranges[i].end
    /\ \A i \in 1..(Len(ranges) - 1) : ranges[i].end = ranges[i + 1].start

\* C23: the shard intervals of embedInFrames are contiguous, ordered,
\* disjoint and cover [0, N), each frame gets the one shard whose interval
\* holds it; extractFromFrames derives the same intervals and uses for every
\* frame it samples the shard index and the work id of the embed.
C23_FrameScheduling ==
    /\ vf_pc \in {"embedding", "embedded", "extracting", "extracted"} =>
        /\ Len(vf_embed.shardFrameRanges) = vf_call.opts.temporalShards
        /\ partitions(vf_embed.shardFrameRanges, Len(vf_call.frames))
        /\ \A f \in DOMAIN vf_embed.frameResults :
            LET r == vf_embed.frameResults[f]
            IN  /\ r.frameIndex = f - 1
                /\ \A i \in DOMAIN vf_embed.shardFrameRanges :
                    (r.frameIndex >= vf_embed.shardFrameRanges[i].start
                        /\ r.frameIndex < vf_embed.shardFrameRanges[i].end)
                    <=> (i = r.shardIndex + 1)
    /\ vf_pc \in {"extracting", "extracted"} =>
        /\ vf_extract.shardFrameRanges = vf_embed.shardFrameRanges
        /\ \A k \in DOMAIN vf_extract.samples :
            LET sample == vf_extract.samples[k]
                frame == vf_embed.watermarkedFrames[sample.frameIndex + 1]
            IN  /\ sample.shardIndex =
                        vf_embed.frameResults[sample.frameIndex + 1].shardIndex
                /\ sample.workId = shardWorkId(VideoWorkId,
                        vf_embed.frameResults[sample.frameIndex + 1].shardIndex)
                /\ frame.mark # NoMark =>
                        /\ sample.workId = frame.mark.workId
                        /\ sample.shardIndex = frame.mark.shardIndex

\* more frames than shards, not a multiple, and a frame of the last shard
\* beyond the equal share has been sampled
C23_Witness ==
    /\ vf_pc = "extracted"
    /\ vf_call.opts.temporalShards = 3
    /\ Len(vf_call.frames) = 11
    /\ \E k \in DOMAIN vf_extract.samples :
        /\ vf_extract.samples[k].shardIndex = 2
        /\ vf_extract.samples[k].frameIndex = 6
        /\ vf_embed.watermarkedFrames[7].mark # NoMark

\* frame i passes the sampling rule, the texture gate and the still embed
frameIsEmbeddable(i) ==
    LET frame == vf_call.frames[i]
        opts == vf_call.opts
    IN  /\ (opts.frameSamplingRate <= 1 \/ (i - 1) % opts.frameSamplingRate = 0)
        /\ (~opts.skipLowTexture
                \/ (frame.kind # "broken" /\ textureScore(frame.kind) >= textureThreshold))
        /\ frame.kind # "broken"

\* C24: embedInFrames gives one output frame and one frameResult per input
\* frame, in order, with framesProcessed + framesSkipped = N; a frame is
\* embedded exactly when it passes the sampling rule and the texture gate and
\* its still embed does not throw; a frame that is not embedded comes out as
\* it went in, and no frame makes embedInFrames throw.
C24_EmbedConservation ==
    /\ vf_pc # "threw"
    /\ vf_pc \in {"embedding", "embedded", "extracting", "extracted"} =>
        /\ Len(vf_embed.frameResults) = Len(vf_embed.watermarkedFrames)
        /\ vf_embed.framesProcessed + vf_embed.framesSkipped
                = Len(vf_embed.watermarkedFrames)
        /\ \A i \in DOMAIN vf_embed.watermarkedFrames :
            /\ vf_embed.watermarkedFrames[i].id = vf_call.frames[i].id
            /\ vf_embed.frameResults[i].frameIndex = i - 1
            /\ vf_embed.frameResults[i].embedded = frameIsEmbeddable(i)
            /\ vf_embed.frameResults[i].embedded
                    = (vf_embed.watermarkedFrames[i].mark # NoMark)
            /\ ~vf_embed.frameResults[i].embedded
                    => vf_embed.watermarkedFrames[i] = vf_call.frames[i]
    /\ vf_pc \in {"embedded", "extracting", "extracted"} =>
        Len(vf_embed.watermarkedFrames) = Len(vf_call.frames)

\* the strings that the samples of shard s (0-based) contribute
candidatesOf(samples, s) ==
    LET RECURSIVE from(_)
        from(k) == IF k > Len(samples) THEN <<>>
                   ELSE IF samples[k].shardIndex = s /\ ~samples[k].result.threw
                            /\ samples[k].result.payload # Null
                            /\ samples[k].result.confidence > 5
                   THEN <<samples[k].result.payload>> \o from(k + 1)
                   ELSE from(k + 1)
    IN  from(1)

occurrences(items, x) == Cardinality({i \in DOMAIN items : items[i] = x})

\* the sampled frames of the intervals: every 5th from the start of each
sampledFrames(ranges) ==
    {p \in (0..(Len(ranges) - 1)) \X (0..MaxVideoFrames) :
        /\ p[2] >= ranges[p[1] + 1].start
        /\ p[2] < ranges[p[1] + 1].end
        /\ (p[2] - ranges[p[1] + 1].start) % 5 = 0}

\* C25: extractFromFrames samples every 5th frame of each shard interval; a
\* shard is recovered only if a sampled frame gave a payload with confidence
\* above 0.5, and its string has maximal frequency among the shard's
\* candidates; with fewer than S shards recovered the result is payload null,
\* confidence shardsRecovered / S, without RS decode; a throwing frame is
\* skipped.
C25_ExtractDecision ==
    vf_pc = "extracted" =>
        LET samples == vf_extract.samples
            numShards == vf_call.opts.temporalShards
            withCandidates == {s \in 0..(numShards - 1) : candidatesOf(samples, s) # <<>>}
            rank(s) == Cardinality({t \in withCandidates : t <= s})
        IN  /\ vf_extract.status = "returned"
            /\ {<<samples[k].shardIndex, samples[k].frameIndex>> : k \in DOMAIN samples}
                    = sampledFrames(vf_extract.shardFrameRanges)
            /\ vf_extract.framesAnalyzed = Len(samples)
            /\ vf_extract.shardsRecovered = Cardinality(withCandidates)
            /\ Len(vf_extract.recoveredShards) = Cardinality(withCandidates)
            /\ \A s \in withCandidates :
                LET chosen == vf_extract.recoveredShards[rank(s)]
                    candidates == candidatesOf(samples, s)
                IN  /\ occurrences(candidates, chosen) >= 1
                    /\ \A i \in DOMAIN candidates :
                        occurrences(candidates, candidates[i])
                            <= occurrences(candidates, chosen)
            /\ Cardinality(withCandidates) < numShards =>
                /\ vf_extract.payload = Null
                /\ vf_extract.confidence =
                        [num |-> Cardinality(withCandidates), den |-> numShards]
                /\ ~vf_extract.decoded
            /\ Cardinality(withCandidates) = numShards => vf_extract.decoded

\* two shards, three sampled frames: one threw, the second shard has the
\* shard's string once and the stray string once, the first shard has no
\* candidate, so nothing is decoded
C25_Witness ==
    /\ vf_pc = "extracted"
    /\ vf_call.opts.temporalShards = 2
    /\ Len(vf_extract.samples) = 3
    /\ vf_extract.samples[1].result.threw
    /\ Len(vf_extract.shardExtractions[2]) = 2
    /\ vf_extract.shardExtractions[2][1] # vf_extract.shardExtractions[2][2]
    /\ vf_extract.shardsRecovered = 1
    /\ ~vf_extract.decoded

\* the largest number of byte errors that eccBytes parity bytes correct
maxCorrectableErrors == ex_call.eccBytes \div 2

extractReturned == im_pc = "extracted" /\ ex_result.status = "returned"

\* C26: for every result of extract the confidence lies in [0,1]; it is 1.0
\* exactly when a payload was decoded with errorsFound = 0; when a payload
\* was decoded with e > 0 errors it is max(0, 1 - e / (2 * floor(eccBytes/2))),
\* so with e <= floor(eccBytes/2) it is at least 0.5 and errorsCorrected =
\* errorsFound; and it is 0 whenever the payload is null.
C26_ExtractConfidence ==
    extractReturned =>
        LET c == ex_result.confidence
            e == ex_result.errorsFound
            decoded == ex_result.payload # Null
        IN  /\ c.den > 0 /\ 0 <= c.num /\ c.num <= c.den
            /\ (c.num = c.den) <=> (decoded /\ e = 0)
            /\ (decoded /\ e > 0) =>
                 /\ c.num * 2 * maxCorrectableErrors
                        = Max(0, 2 * maxCorrectableErrors - e) * c.den
                 /\ (e <= maxCorrectableErrors) =>
                        /\ 2 * c.num >= c.den
                        /\ ex_result.errorsCorrected = e
            /\ ~decoded => c.num = 0

-----------------------------------------------------------------------------
\* Stages of an embed

\* the stage that ImageWatermarkEngine.embed has reached
embedStage ==
    CASE im_pc = "idle" -> "INIT"
      [] im_pc = "eccEncoded" -> "ECC_ENCODED"
      [] im_pc = "hopperReady" -> "HOPPER_READY"
      [] im_pc = "luminance" -> "INPUT_READ"
      [] im_pc = "blocks" /\ im_bitIndex = 0 -> "CAPACITY_CHECKED"
      [] im_pc = "blocks" /\ im_bitIndex > 0 -> "BLOCKS_WRITTEN"
      [] im_pc = "encoded" -> "ENCODED"
      [] im_pc = "failed" ->
            IF im_embed.error = "Could not determine image dimensions"
            THEN "INPUT_UNREADABLE"
            ELSE IF im_embed.error = "Payload too large"
            THEN "CAPACITY_EXCEEDED"
            ELSE "VALIDATOR_THREW"
      [] OTHER -> "VALIDATED"

\* the stage that the watermark request has reached around its embed call
routeStage ==
    CASE rq_pc \in {"embedded", "wmUploaded", "updated"} -> "VALIDATED"
      [] rq_pc \in {"signed", "notarizing", "notarized"} -> "SIGNED"
      [] rq_pc = "responded" -> "DONE"
      [] OTHER -> "INIT"

FailureStages == {"INPUT_UNREADABLE", "CAPACITY_EXCEEDED", "VALIDATOR_THREW"}

ClaimedOrder ==
    <<"INIT", "CAPACITY_CHECKED", "ECC_ENCODED", "HOPPER_READY", "BLOCKS_WRITTEN",
      "ENCODED", "VALIDATED", "SIGNED", "DONE">>

\* position of a stage in the claimed order; reading the input is no stage
\* of that list and counts as part of the stage before it
claimedRank(stage) ==
    LET st == IF stage = "INPUT_READ" THEN "HOPPER_READY" ELSE stage
    IN  CHOOSE k \in 1..Len(ClaimedOrder) : ClaimedOrder[k] = st

\* the request runs validation (inside embed) before signing, and ends last
routeOrderKept ==
    routeStage' # routeStage => claimedRank(routeStage') > claimedRank(routeStage)

EmbedSteps ==
    {<<"INIT", "ECC_ENCODED">>, <<"ECC_ENCODED", "HOPPER_READY">>,
     <<"HOPPER_READY", "INPUT_READ">>, <<"HOPPER_READY", "INPUT_UNREADABLE">>,
     <<"INPUT_READ", "CAPACITY_CHECKED">>, <<"INPUT_READ", "CAPACITY_EXCEEDED">>,
     <<"CAPACITY_CHECKED", "BLOCKS_WRITTEN">>, <<"BLOCKS_WRITTEN", "ENCODED">>,
     <<"ENCODED", "VALIDATED">>, <<"ENCODED", "VALIDATOR_THREW">>}

-----------------------------------------------------------------------------
\* Quality validation

\* C28: quality validation never turns a successful embedding into a
\* failure: embed fails only on an unreadable input or a payload over
\* capacity, whatever the channel layout of the original; with
\* validateQuality = true an embed whose embedding steps succeed returns the
\* buffer together with the measured metrics.
C28_ValidationNeverFails ==
    /\ im_pc = "failed" =>
            im_embed.error \in {"Could not determine image dimensions",
                                "Payload too large"}
    /\ (im_pc = "encoded" /\ embedOpts.validateQuality) =>
            ~validate(im_call.image, outputBuffer).threw
    /\ (embedReturned /\ embedOpts.validateQuality) =>
            /\ im_embed.watermarkedBuffer = outputBuffer
            /\ im_embed.qualityMetrics.samples > 0

-----------------------------------------------------------------------------
\* Status of an artwork record

StatusMoves ==
    {<<"pending", "processing">>, <<"processing", "completed">>,
     <<"pending", "failed">>, <<"processing", "failed">>}

\* C29: the status of an artwork record only moves pending -> processing ->
\* completed, or to failed, and once the request handler has returned every
\* record of the request is in a terminal status: completed if embedding and
\* storage succeeded, failed otherwise; none stays pending or processing.
C29_StatusLifecycle ==
    /\ [][\A id \in DOMAIN db_artworks :
            \/ db_artworks'[id].status = db_artworks[id].status
            \/ <<db_artworks[id].status, db_artworks'[id].status>> \in StatusMoves]_vars
    /\ [](rq_pc = "responded" =>
            \A id \in DOMAIN db_artworks :
                /\ db_artworks[id].status \in {"completed", "failed"}
                /\ (db_artworks[id].status = "completed")
                        <=> (rq_response.status = 200))

-----------------------------------------------------------------------------
\* Storage clean-up

CleanupFields == {"originalFileId", "watermarkedFileId", "processingError"}

\* the mutation kept every document and everything in it but the fields
\* of the clean-up
sameEvidence(before, after) ==
    /\ DOMAIN after = DOMAIN before
    /\ \A id \in DOMAIN before :
        /\ DOMAIN after[id] \ CleanupFields = DOMAIN before[id] \ CleanupFields
        /\ \A k \in DOMAIN before[id] \ CleanupFields : after[id][k] = before[id][k]

\* no document that remains references a file that the mutation deleted
noDeletedRefs(r) ==
    \A id \in DOMAIN r.artworks : fileRefs(r.artworks[id]) \cap r.deleted = {}

\* C30: in every state the table can reach, cleanupStorageOnly, and
\* cleanupOldArtworks with keepEvidence = true, keep every document and
\* change only its originalFileId, watermarkedFileId and processingError;
\* after any clean-up or delete mutation no remaining document references a
\* storage file that the mutation deleted; with these mutations as the only
\* ones that delete files, no document references a file that is not stored.
C30_CleanupPreservesEvidence ==
    /\ \A id \in 1..MaxDocuments, keepOriginal \in BOOLEAN :
        LET r == cleanupStorageOnly(cl_artworks, cl_storage, id, keepOriginal)
        IN  sameEvidence(cl_artworks, r.artworks) /\ noDeletedRefs(r)
    /\ \A userId \in CleanupUsers, olderThanDays \in {0, 1} :
        LET r == cleanupOldArtworks(cl_artworks, cl_storage, cl_now, userId,
                                    olderThanDays, TRUE)
        IN  sameEvidence(cl_artworks, r.artworks) /\ noDeletedRefs(r)
    /\ \A userId \in CleanupUsers, olderThanDays \in {0, 1} :
        noDeletedRefs(cleanupOldArtworks(cl_artworks, cl_storage, cl_now, userId,
                                         olderThanDays, FALSE))
    /\ \A id \in 1..MaxDocuments, deleteOriginal \in BOOLEAN,
          deleteWatermarked \in BOOLEAN :
        noDeletedRefs(deleteWithCleanup(cl_artworks, cl_storage, id,
                                        deleteOriginal, deleteWatermarked))
    /\ \A id \in DOMAIN cl_artworks : fileRefs(cl_artworks[id]) \subseteq cl_storage

\* a completed document after cleanupStorageOnly without keepOriginal: both
\* files are gone from the storage, the document keeps its evidence and
\* status and carries the flag
C30_Witness ==
    \E id \in DOMAIN cl_artworks :
        /\ cl_artworks[id].status = "completed"
        /\ "processingError" \in DOMAIN cl_artworks[id]
        /\ cl_artworks[id].processingError = "FILES_CLEANED_UP"
        /\ "evidenceSignature" \in DOMAIN cl_artworks[id]
        /\ cl_artworks[id].payloadHash = <<"payloadHash", id>>
        /\ fileRefs(cl_artworks[id]) = {}
        /\ {originalFileOf(id), watermarkedFileOf(id)} \cap cl_storage = {}

=============================================================================
